---- MODULE Spec2Model ----
(***************************************************************************)
(* Model of draw-on-git-history: the commit planner (domain/commitPlan.ts, *)
(* domain/grid.ts, utils/date.ts, utils/random.ts), the timestamp          *)
(* scheduler and the repository synthesizer (services/gitService.ts), the  *)
(* generate handler (controllers/generationController.ts) and the progress *)
(* store (services/progressService.ts).                                    *)
(*                                                                         *)
(* SpecPlan     calls of buildCommitPlan and flattenGrid                   *)
(* SpecGrid     calls of validateGrid                                      *)
(* SpecTimes    calls of buildCommitTimes                                  *)
(* SpecReplay   runs of the commit loop of generateRepository, with the    *)
(*              dates, timestamps and tokens of the commits                *)
(* SpecRng      calls of a generator of createRng                          *)
(* SpecGen      one generate request or generateRepository call, one step  *)
(*              per awaited operation, any one of which may fail           *)
(* SpecConcurrent two generate requests for the same path                  *)
(* SpecGenerateProgress a generate request next to a progress connection   *)
(* SpecProgress calls of the progress store and its cleanup timeouts       *)
(* SpecListen   the progress store with subscribers                        *)
(* SpecErrorId  the progress store used with the id "error"                *)
(* SpecConnection the progress store with the connections of               *)
(*              GET /progress/:id (routes/generationRoutes.ts)             *)
(***************************************************************************)
EXTENDS Integers, Sequences, FiniteSets, TLC

VARIABLES
    zone,        \* the time zone of the server process: "UTC" or "US"
    planInputs,  \* the argument lists buildCommitPlan is invoked with
    calls,       \* the invocations of buildCommitPlan so far: <<arguments, result>>
    rng,         \* the state of the generator created last by createRng
    flat,        \* the result of the last direct call of flattenGrid
    gridCall,    \* the last direct call of validateGrid: its argument and what it threw
    timesCall,   \* the last call of buildCommitTimes: its arguments and result
    replayArgs,  \* the plan, summary and seed generateRepository is run with
    runs,        \* the runs of the commit loop so far: wall clock and commits made
    rngCalls,    \* the direct calls of a generator: its seed, their number, the last value
    fsys,        \* what is at the target repository path
    fs0,         \* what was at the target repository path at the start
    reqs,        \* the generate requests: position, payload, effects so far, response
    progressStore, \* progressService: the ProgressState stored for each id
    timers,      \* progressService: the pending cleanup timeouts of each id
    emitted,     \* progressService: the last emitter.emit and the call that made it
    listeners,   \* progressService: the emitter's listener array of each id
    subs,        \* the calls of subscribeProgress so far, and what each listener received
    delivered    \* the listener calls made by the last emitter.emit

planVars == <<zone, planInputs, calls, rng, flat, gridCall>>
timesVars == <<timesCall, replayArgs, runs, rngCalls>>
genVars == <<fsys, fs0, reqs>>
listenVars == <<listeners, subs, delivered>>
progressVars == <<progressStore, timers, emitted, listenVars>>
vars == <<planVars, timesVars, genVars, progressVars>>

(***************************************************************************)
(* 32-bit words.  TLC integers are 32-bit signed, so a JavaScript uint32   *)
(* is kept as the pair <<hi, lo>> of its 16-bit halves.                    *)
(***************************************************************************)
W16 == 2 ^ 16

\* Bitwise tables on 4-bit digits, built once.
RECURSIVE XorBits(_, _, _)
XorBits(a, b, n) ==
    IF n = 0 THEN 0
    ELSE (((a % 2) + (b % 2)) % 2) + 2 * XorBits(a \div 2, b \div 2, n - 1)

RECURSIVE OrBits(_, _, _)
OrBits(a, b, n) ==
    IF n = 0 THEN 0
    ELSE (IF (a % 2) + (b % 2) > 0 THEN 1 ELSE 0) + 2 * OrBits(a \div 2, b \div 2, n - 1)

XorTab == [a \in 0..15 |-> [b \in 0..15 |-> XorBits(a, b, 4)]]
OrTab == [a \in 0..15 |-> [b \in 0..15 |-> OrBits(a, b, 4)]]

Xor16(a, b) ==
    XorTab[a % 16][b % 16]
    + 16 * XorTab[(a \div 16) % 16][(b \div 16) % 16]
    + 256 * XorTab[(a \div 256) % 16][(b \div 256) % 16]
    + 4096 * XorTab[a \div 4096][b \div 4096]

Or16(a, b) ==
    OrTab[a % 16][b % 16]
    + 16 * OrTab[(a \div 16) % 16][(b \div 16) % 16]
    + 256 * OrTab[(a \div 256) % 16][(b \div 256) % 16]
    + 4096 * OrTab[a \div 4096][b \div 4096]

\* x ^ y on 32-bit words.
Xor32(x, y) == <<Xor16(x[1], y[1]), Xor16(x[2], y[2])>>

\* x | k for a constant k < 2^16.
OrLow(x, k) == <<x[1], Or16(x[2], k)>>

Pow2(k) == 2 ^ k

\* x >>> k for 0 < k < 16.
Shr(x, k) ==
    <<x[1] \div Pow2(k), (x[1] % Pow2(k)) * Pow2(16 - k) + x[2] \div Pow2(k)>>

\* (x + y) mod 2^32: the ToInt32 of a sum of two int32 values.
Add32(x, y) ==
    LET lo == x[2] + y[2]
    IN  <<(x[1] + y[1] + lo \div W16) % W16, lo % W16>>

\* The exact product of two 16-bit numbers as a 32-bit word.
Mul16(x, y) ==
    LET p == x * (y \div 256)
        q == x * (y % 256)
        lo == (p % 256) * 256 + q
    IN  <<p \div 256 + lo \div W16, lo % W16>>

\* Math.imul(x, y): the low 32 bits of the product.
Imul(x, y) ==
    LET m == Mul16(x[2], y[2])
        cross == (Mul16(x[1], y[2])[2] + Mul16(x[2], y[1])[2]) % W16
    IN  <<(m[1] + cross) % W16, m[2]>>

(***************************************************************************)
(* utils/random.ts                                                         *)
(***************************************************************************)
\* hashSeed: FNV-1a over the UTF-16 code units of the seed.
RECURSIVE hashLoop(_, _, _)
hashLoop(hash, seed, i) ==
    IF i > Len(seed) THEN hash
    ELSE LET next == Imul(<<hash[1], Xor16(hash[2], seed[i])>>, <<256, 403>>)
         IN  \* the test has TLC evaluate `next` before it descends
             IF next[1] >= 0 THEN hashLoop(next, seed, i + 1) ELSE next

hashSeed(seed) == hashLoop(<<33052, 40389>>, seed, 1)

\* A generator kept across calls: seeded by the first call only.
createRngShared(seed) ==
    IF rng.ov < 0 THEN [ov |-> 0, w |-> hashSeed(seed)] ELSE rng

\* The closure variable `state` of createRng: a JavaScript number that grows
\* by 0x6d2b79f5 per call and is never wrapped; ov counts the multiples of
\* 2^32 above the low word.
createRng(seed) == [ov |-> 0, w |-> hashSeed(seed)]

\* The exact sum state + n * 0x6d2b79f5 (= 27947 * 2^16 + 31221), for
\* n < 2^23: below 2^53 every addition of the n calls is exact, so the sum is
\* the state after n calls.
rngAdvanceBy(state, n) ==
    LET lo == state.w[2] + (n % W16) * 31221
        hi == state.w[1] + (n % W16) * 27947 + (n \div W16) * 31221 + lo \div W16
    IN  [ov |-> state.ov + (n \div W16) * 27947 + hi \div W16, w |-> <<hi % W16, lo % W16>>]

\* The distance between neighbouring doubles at ov * 2^32: 1 below 2^53, then
\* doubling with every power of two.
RECURSIVE ulpOf(_)
ulpOf(ov) == IF ov < 2097152 THEN 1 ELSE 2 * ulpOf(ov \div 2)

\* Whether a sum with low half-word lo rounds up to the next multiple of ulp
\* (to the nearest one, and to the even one of two equally near).
roundsUp(lo, ulp) ==
    \/ 2 * (lo % ulp) > ulp
    \/ 2 * (lo % ulp) = ulp /\ (lo \div ulp) % 2 = 1

roundedLow(lo, ulp) == (lo \div ulp) * ulp + (IF roundsUp(lo, ulp) THEN ulp ELSE 0)

carried(ov, hi, lo) == [ov |-> ov + hi \div W16, w |-> <<hi % W16, lo % W16>>]

\* The double nearest to an exact sum: the sum itself below 2^53.
toDouble(sum) ==
    carried(sum.ov, sum.w[1] + roundedLow(sum.w[2], ulpOf(sum.ov)) \div W16,
            roundedLow(sum.w[2], ulpOf(sum.ov)))

\* state += 0x6d2b79f5
rngAdvance(state) == toDouble(rngAdvanceBy(state, 1))

\* t = Math.imul(t ^ (t >>> 15), t | 1)
rngMix1(t) == Imul(Xor32(t, Shr(t, 15)), OrLow(t, 1))

\* t ^= t + Math.imul(t ^ (t >>> 7), t | 61)
rngMix2(t) == Xor32(t, Add32(t, Imul(Xor32(t, Shr(t, 7)), OrLow(t, 61))))

\* (t ^ (t >>> 14)) >>> 0
rngMix3(t) == Xor32(t, Shr(t, 14))

\* The mixing steps of one generator call on t = state; the result is the
\* uint32 numerator of the returned float (value = numerator / 2^32).
rngMix(t0) == rngMix3(rngMix2(rngMix1(t0)))

\* The value a call returns once state holds s.
rngValue(s) == [state |-> s, value |-> rngMix(s.w)]

\* One call rng(): the new closure state and the value returned.
rngNext(state) == rngValue(rngAdvance(state))

\* No direct call of a generator yet.
NoRngCalls == [seed |-> <<>>, n |-> 0, value |-> <<0, 0>>]

\* Math.floor(value * n) for value = u / 2^32 and 0 < n < 2^16.
ScaleFloor(u, n) ==
    LET p1 == Mul16(u[1], n)
        p2 == Mul16(u[2], n)
    IN  p1[1] + (p1[2] + p2[1]) \div W16

\* Math.floor(value * (clampedMax - clampedMin + 1)) + clampedMin for the
\* value r of the call rng().
scaled(r, min, max) ==
    [ok |-> TRUE, state |-> r.state, value |-> ScaleFloor(r.value, max - min + 1) + min]

\* randomInt(rng, min, max) on integer bounds: "throw" when max < min, else
\* the drawn integer and the advanced generator.
randomInt(state, min, max) ==
    IF max < min THEN [ok |-> FALSE, state |-> state, value |-> 0]
    ELSE scaled(rngNext(state), min, max)

(***************************************************************************)
(* utils/errors.ts: an error is its class, HTTP status and message.        *)
(***************************************************************************)
NoError == [kind |-> "none", status |-> 0, message |-> <<>>]
ValidationError(message) == [kind |-> "ValidationError", status |-> 400, message |-> message]
ConflictError(message) == [kind |-> "ConflictError", status |-> 409, message |-> message]
InternalError(message) == [kind |-> "InternalError", status |-> 500, message |-> message]
PlainError(message) == [kind |-> "Error", status |-> 500, message |-> message]

(***************************************************************************)
(* JavaScript Date in the server's local time zone.                        *)
(*                                                                         *)
(* A date string is [fmt, y, m, d]: fmt says whether the text matches      *)
(* /^\d{4}-\d{2}-\d{2}$/, and y, m, d are the numbers its digit groups     *)
(* spell.  A Date object is [nan, day, sec]: the local calendar day (days  *)
(* since 1970-01-01) and the seconds since local midnight.                 *)
(***************************************************************************)
IsoString(y, m, d) == [fmt |-> TRUE, y |-> y, m |-> m, d |-> d]
InvalidDate == [nan |-> TRUE, day |-> 0, sec |-> 0]

\* Days since 1970-01-01 of the proleptic Gregorian date y-m-d (MakeDay).
DaysFromCivil(y, m, d) ==
    LET yy == IF m <= 2 THEN y - 1 ELSE y
        era == yy \div 400
        yoe == yy - era * 400
        mp == IF m > 2 THEN m - 3 ELSE m + 9
        doy == (153 * mp + 2) \div 5 + d - 1
        doe == yoe * 365 + yoe \div 4 - yoe \div 100 + doy
    IN  era * 146097 + doe - 719468

\* The calendar date of a day number (YearFromTime, MonthFromTime, DateFromTime).
CivilFromDays(z0) ==
    LET z == z0 + 719468
        era == z \div 146097
        doe == z - era * 146097
        yoe == (doe - doe \div 1460 + doe \div 36524 - doe \div 146096) \div 365
        doy == doe - (365 * yoe + yoe \div 4 - yoe \div 100)
        mp == (5 * doy + 2) \div 153
        d == doy - (153 * mp + 2) \div 5 + 1
        m == IF mp < 10 THEN mp + 3 ELSE mp - 9
    IN  <<(yoe + era * 400) + (IF m <= 2 THEN 1 ELSE 0), m, d>>

\* new Date(`${value}T00:00:00`) as Node parses it: a month outside 1..12 or
\* a day outside 1..31 gives an Invalid Date, a day past the end of the month
\* rolls over into the next month.
parseLocalMidnight(value) ==
    IF value.m \notin 1..12 \/ value.d \notin 1..31 THEN InvalidDate
    ELSE [nan |-> FALSE, day |-> DaysFromCivil(value.y, value.m, 1) + value.d - 1, sec |-> 0]

\* Day of the week of a day number, 0 = Sunday.
WeekDay(day) == (day + 4) % 7

\* The first day with week day 0 on or after the given day.
SundayOnOrAfter(day) == day + ((7 - WeekDay(day)) % 7)

\* The zone's offset from UTC, in seconds, at a local wall-clock time.  "UTC"
\* has none; "US" is US Eastern time: UTC-5, and UTC-4 from 03:00 on the
\* second Sunday of March to 02:00 on the first Sunday of November.
tzOffset(day, sec) ==
    IF zone = "UTC" THEN 0
    ELSE LET y == CivilFromDays(day)[1]
             from == SundayOnOrAfter(DaysFromCivil(y, 3, 8))
             to == SundayOnOrAfter(DaysFromCivil(y, 11, 1))
             dst == /\ (day > from \/ (day = from /\ sec >= 3 * 3600))
                    /\ (day < to \/ (day = to /\ sec < 2 * 3600))
         IN  IF dst THEN 0 - 4 * 3600 ELSE 0 - 5 * 3600

\* date.getTime(), in seconds (every Date of the program is on a whole second).
getTime(date) == date.day * 86400 + date.sec - tzOffset(date.day, date.sec)

(***************************************************************************)
(* utils/date.ts                                                           *)
(***************************************************************************)
\* formatIsoDate(date): local year, month and day.
formatIsoDate(date) ==
    LET c == CivilFromDays(date.day)
    IN  IsoString(c[1], c[2], c[3])

\* assertValidIsoDate(value, fieldName): the error thrown, or NoError.
assertValidIsoDate(value, fieldName) ==
    IF ~value.fmt THEN ValidationError(<<fieldName, "must be in YYYY-MM-DD format">>)
    ELSE LET parsed == parseLocalMidnight(value)
         IN  IF parsed.nan THEN ValidationError(<<fieldName, "is not a valid date">>)
             ELSE IF formatIsoDate(parsed) # value
                  THEN ValidationError(<<fieldName, "is not a real calendar date">>)
                  ELSE NoError

\* addDays(isoDate, days) for a date string that passed assertValidIsoDate:
\* setDate(getDate() + days) moves the local calendar day.
addDays(isoDate, days) ==
    LET date == parseLocalMidnight(isoDate)
    IN  [nan |-> FALSE, day |-> date.day + days, sec |-> 0]

\* diffInDays(startDate, endDate) for two valid date strings:
\* Math.floor((end.getTime() - start.getTime()) / 86400000).
diffInDays(startDate, endDate) ==
    LET start == parseLocalMidnight(startDate)
        end == parseLocalMidnight(endDate)
    IN  (getTime(end) - getTime(start)) \div 86400


(***************************************************************************)
(* domain/grid.ts                                                          *)
(*                                                                         *)
(* A grid is [rows, cols, levels]; levels[r + 1][c + 1] is the source's    *)
(* grid.levels[r][c].                                                      *)
(***************************************************************************)
\* The first invalid cell in column order.
firstInvalidCellByColumn(grid) ==
    LET bad == {rc \in (1..Len(grid.levels)) \X (1..grid.cols) :
                   grid.levels[rc[1]][rc[2]] \notin 0..4}
    IN  IF bad = {} THEN <<>>
        ELSE CHOOSE rc \in bad :
                 \A o \in bad : rc[2] < o[2] \/ (rc[2] = o[2] /\ rc[1] <= o[1])

\* The first (row, col), in forEach order, whose level is not in 0..4, or
\* <<>> when every cell is valid.
firstInvalidCell(grid) ==
    LET bad == {rc \in (1..Len(grid.levels)) \X (1..grid.cols) :
                   grid.levels[rc[1]][rc[2]] \notin 0..4}
    IN  IF bad = {} THEN <<>>
        ELSE CHOOSE rc \in bad :
                 \A o \in bad : rc[1] < o[1] \/ (rc[1] = o[1] /\ rc[2] <= o[2])

\* validateGrid(grid): the error thrown, or NoError.  The rows are visited
\* in order, and in each row the length is checked before its cells.
validateGrid(grid) ==
    IF grid.rows # 7 \/ grid.cols # 51
    THEN ValidationError(<<"Grid must be 7x51, received", grid.rows, grid.cols>>)
    ELSE IF Len(grid.levels) # grid.rows
    THEN ValidationError(<<"Grid levels row count does not match rows">>)
    ELSE LET shortRows == {r \in 1..Len(grid.levels) : Len(grid.levels[r]) # grid.cols}
             firstShort == IF shortRows = {} THEN 0
                           ELSE CHOOSE r \in shortRows : \A o \in shortRows : r <= o
             upTo == IF firstShort = 0 THEN Len(grid.levels) ELSE firstShort - 1
             cell == firstInvalidCell([grid EXCEPT !.levels = SubSeq(grid.levels, 1, upTo)])
         IN  IF cell # <<>>
             THEN ValidationError(<<"Grid cell has invalid level", cell[1] - 1, cell[2] - 1>>)
             ELSE IF firstShort # 0
             THEN ValidationError(<<"Grid row does not match column count", firstShort - 1>>)
             ELSE NoError

\* The offset with rows and columns exchanged.
getDateForCellTransposed(startDate, rowIndex, colIndex) ==
    formatIsoDate(addDays(startDate, rowIndex * 7 + colIndex))

\* getDateForCell(startDate, rowIndex, colIndex) for a valid start date.
getDateForCell(startDate, rowIndex, colIndex) ==
    formatIsoDate(addDays(startDate, colIndex * 7 + rowIndex))

\* flattenGrid(grid, startDate): [error, flattened].  The loops run over the
\* columns and, inside, over the rows; the k-th push (k from 0) is the cell
\* of column k div rows and row k mod rows.
flattenGrid(grid, startDate) ==
    LET gridError == validateGrid(grid)
        dateError == assertValidIsoDate(startDate, "startDate")
    IN  IF gridError # NoError THEN [error |-> gridError, flattened |-> <<>>]
        ELSE IF dateError # NoError THEN [error |-> dateError, flattened |-> <<>>]
        ELSE [error |-> NoError,
              flattened |->
                  [k \in 1..(grid.cols * grid.rows) |->
                      LET colIndex == (k - 1) \div grid.rows
                          rowIndex == (k - 1) % grid.rows
                      IN  [date |-> getDateForCell(startDate, rowIndex, colIndex),
                           level |-> grid.levels[rowIndex + 1][colIndex + 1]]]]


(***************************************************************************)
(* domain/commitPlan.ts                                                    *)
(*                                                                         *)
(* An intensity map is [minByLevel, maxByLevel], two functions from levels *)
(* to integers; a level outside a function's domain is a missing key.  An  *)
(* optional seed is [given, text], text being the UTF-16 code units.       *)
(***************************************************************************)
\* One day too many.
EXPECTED_GRID_DAYS_plus1 == 7 * 51 + 1

EXPECTED_GRID_DAYS == 7 * 51

\* return randomInt(rng, min, max)
drawnCount(r) == [error |-> NoError, count |-> r.value, state |-> r.state]

\* getCommitCountForLevel(level, intensityMap, rng): [error, count, state].
getCommitCountForLevel(level, intensityMap, state) ==
    IF level \notin DOMAIN intensityMap.minByLevel \/ level \notin DOMAIN intensityMap.maxByLevel
    THEN [error |-> ValidationError(<<"Missing intensity range for level", level>>),
          count |-> 0, state |-> state]
    ELSE IF level = 0 THEN [error |-> NoError, count |-> 0, state |-> state]
    ELSE IF intensityMap.minByLevel[level] > intensityMap.maxByLevel[level]
    THEN [error |-> ValidationError(<<"Intensity range is invalid for level", level>>),
          count |-> 0, state |-> state]
    ELSE drawnCount(randomInt(state, intensityMap.minByLevel[level], intensityMap.maxByLevel[level]))

\* flattened.map(...) over the entries lo..hi, in order, with the generator
\* threaded through: [error, entries, state].  The first throw ends the map.
\* The range is split in halves to keep the evaluation shallow; the entries
\* are still visited from lo to hi.
RECURSIVE mapEntries(_, _, _, _, _)

\* The plan entry of one flattened entry, given its commit count c.
mapEntry(entry, c) ==
    [error |-> c.error,
     entries |-> IF c.error = NoError
                 THEN <<[date |-> entry.date, level |-> entry.level, commitCount |-> c.count]>>
                 ELSE <<>>,
     state |-> c.state]

\* The entries of the left half followed by those of the right half.
mapJoin(left, right) ==
    [error |-> right.error,
     entries |-> IF right.error = NoError THEN left.entries \o right.entries ELSE <<>>,
     state |-> right.state]

\* The map over mid + 1..hi after the map over the entries before them.
mapRest(flattened, mid, hi, intensityMap, left) ==
    IF left.error # NoError THEN left
    ELSE mapJoin(left, mapEntries(flattened, mid + 1, hi, intensityMap, left.state))

mapEntries(flattened, lo, hi, intensityMap, state) ==
    IF lo > hi THEN [error |-> NoError, entries |-> <<>>, state |-> state]
    ELSE IF lo = hi
    THEN mapEntry(flattened[lo], getCommitCountForLevel(flattened[lo].level, intensityMap, state))
    ELSE mapRest(flattened, (lo + hi) \div 2, hi, intensityMap,
                 mapEntries(flattened, lo, (lo + hi) \div 2, intensityMap, state))

\* plan.reduce((sum, entry) => sum + entry.commitCount, 0) over lo..hi.
RECURSIVE reduceCommits(_, _, _)
reduceCommits(plan, lo, hi) ==
    IF lo > hi THEN 0
    ELSE IF lo = hi THEN plan[lo].commitCount
    ELSE reduceCommits(plan, lo, (lo + hi) \div 2) + reduceCommits(plan, (lo + hi) \div 2 + 1, hi)

\* A summary that counts every entry as an active day.
summarizePlanAllActive(plan, requestedRange) ==
    [totalCommits |-> reduceCommits(plan, 1, Len(plan)),
     activeDays |-> Len(SelectSeq(plan, LAMBDA entry : entry.commitCount >= 0)),
     firstGridDate |-> IF Len(plan) > 0 THEN plan[1].date ELSE requestedRange.startDate,
     lastGridDate |-> IF Len(plan) > 0 THEN plan[Len(plan)].date ELSE requestedRange.endDate,
     requestedRange |-> requestedRange]

\* summarizePlan(plan, requestedRange)
summarizePlan(plan, requestedRange) ==
    [totalCommits |-> reduceCommits(plan, 1, Len(plan)),
     activeDays |-> Len(SelectSeq(plan, LAMBDA entry : entry.commitCount > 0)),
     firstGridDate |-> IF Len(plan) > 0 THEN plan[1].date ELSE requestedRange.startDate,
     lastGridDate |-> IF Len(plan) > 0 THEN plan[Len(plan)].date ELSE requestedRange.endDate,
     requestedRange |-> requestedRange]

\* The UTF-16 code units of a date string that matches the YYYY-MM-DD format.
isoChars(value) ==
    <<48 + (value.y \div 1000), 48 + ((value.y \div 100) % 10), 48 + ((value.y \div 10) % 10),
      48 + (value.y % 10), 45, 48 + (value.m \div 10), 48 + (value.m % 10), 45,
      48 + (value.d \div 10), 48 + (value.d % 10)>>

NoSummary ==
    [totalCommits |-> 0, activeDays |-> 0, firstGridDate |-> IsoString(0, 0, 0),
     lastGridDate |-> IsoString(0, 0, 0),
     requestedRange |-> [startDate |-> IsoString(0, 0, 0), endDate |-> IsoString(0, 0, 0)]]

planThrow(error, state) == [error |-> error, plan |-> <<>>, summary |-> NoSummary, state |-> state]

\* const seed = randomSeed ?? `${dateRange.startDate}:${dateRange.endDate}`
planSeed(dateRange, randomSeed) ==
    IF randomSeed.given THEN randomSeed.text
    ELSE isoChars(dateRange.startDate) \o <<58>> \o isoChars(dateRange.endDate)

\* The end of buildCommitPlan, after flattened.map(...).
planOfMapped(mapped, dateRange) ==
    IF mapped.error # NoError THEN planThrow(mapped.error, mapped.state)
    ELSE [error |-> NoError,
          plan |-> mapped.entries,
          summary |-> summarizePlan(mapped.entries, dateRange),
          state |-> mapped.state]

\* buildCommitPlan after createRng and flattenGrid.
planOfFlattened(flattened, dateRange, intensityMap, state) ==
    IF flattened.error # NoError THEN planThrow(flattened.error, state)
    ELSE planOfMapped(mapEntries(flattened.flattened, 1, Len(flattened.flattened),
                                 intensityMap, state),
                      dateRange)

\* buildCommitPlan(grid, dateRange, intensityMap, randomSeed):
\* [error, plan, summary] and the state in which it leaves its generator
\* (the generator of the previous call when it throws before createRng).
buildCommitPlan(grid, dateRange, intensityMap, randomSeed) ==
    LET startError == assertValidIsoDate(dateRange.startDate, "startDate")
        endError == assertValidIsoDate(dateRange.endDate, "endDate")
    IN  IF startError # NoError THEN planThrow(startError, rng)
        ELSE IF endError # NoError THEN planThrow(endError, rng)
        ELSE LET expectedEndDate ==
                     formatIsoDate(addDays(dateRange.startDate, EXPECTED_GRID_DAYS - 1))
             IN  IF dateRange.endDate # expectedEndDate
                 THEN planThrow(ValidationError(<<"endDate must be", expectedEndDate>>), rng)
                 ELSE IF diffInDays(dateRange.startDate, dateRange.endDate) # EXPECTED_GRID_DAYS - 1
                 THEN planThrow(ValidationError(<<"Date range does not match 7x51 grid day count">>), rng)
                 ELSE planOfFlattened(flattenGrid(grid, dateRange.startDate), dateRange,
                                      intensityMap, createRng(planSeed(dateRange, randomSeed)))

(***************************************************************************)
(* Reference calendar, used to choose inputs and to state the properties.  *)
(* It counts days from the lengths of the months, independently of the     *)
(* Date arithmetic above.                                                  *)
(***************************************************************************)
RefIsLeap(y) == (y % 4 = 0 /\ y % 100 # 0) \/ y % 400 = 0

RefMonthLen(y, m) ==
    IF m = 2 THEN (IF RefIsLeap(y) THEN 29 ELSE 28)
    ELSE IF m \in {4, 6, 9, 11} THEN 30 ELSE 31

RefIsRealDate(value) ==
    /\ value.fmt
    /\ value.m \in 1..12
    /\ value.d \in 1..RefMonthLen(value.y, value.m)

RECURSIVE RefDaysBeforeMonth(_, _)
RefDaysBeforeMonth(y, m) ==
    IF m <= 1 THEN 0 ELSE RefMonthLen(y, m - 1) + RefDaysBeforeMonth(y, m - 1)

\* Days from 2000-01-01 to a real date of the year 2000 or later.
RefDayNumber(value) ==
    365 * (value.y - 2000) + Cardinality({yy \in 2000..(value.y - 1) : RefIsLeap(yy)})
    + RefDaysBeforeMonth(value.y, value.m) + value.d - 1

\* The real dates that lie lo..hi days after a real date.
RefDatesAfter(value, lo, hi) ==
    {v \in {IsoString(y, m, d) : y \in value.y..(value.y + 2), m \in 1..12, d \in 1..31} :
        /\ RefIsRealDate(v)
        /\ RefDayNumber(v) - RefDayNumber(value) \in lo..hi}

(***************************************************************************)
(* Inputs of the planner.                                                  *)
(***************************************************************************)
MaxGrid == 2       \* painted grids 0..MaxGrid; grid 0 is empty
MaxSlack == 1      \* end dates up to MaxSlack days off startDate + 356 days
MaxCalls == 3      \* invocations of buildCommitPlan in one run

Zones == {"UTC", "US"}

\* A 7x51 grid: pattern 0 is all zero, pattern k paints k of every 11 days
\* with the levels 1..4.
PatternGrid(k) ==
    [rows |-> 7, cols |-> 51,
     levels |-> [r \in 1..7 |-> [c \in 1..51 |->
                    LET x == ((c - 1) * 7 + (r - 1)) * k
                    IN  IF x % 11 < k THEN (x % 4) + 1 ELSE 0]]]

\* The default ranges of config.ts.
DefaultIntensity ==
    [minByLevel |-> (0 :> 0 @@ 1 :> 1 @@ 2 :> 3 @@ 3 :> 6 @@ 4 :> 10),
     maxByLevel |-> (0 :> 0 @@ 1 :> 2 @@ 2 :> 5 @@ 3 :> 9 @@ 4 :> 14)]

\* Maps the request schema accepts (integers >= 0 for every level): the
\* default, one with min > max on level 2, one with a range on level 0, one
\* with min > max on level 0.
IntensityMaps ==
    {DefaultIntensity,
     [DefaultIntensity EXCEPT !.minByLevel[2] = 6],
     [DefaultIntensity EXCEPT !.minByLevel[0] = 1, !.maxByLevel[0] = 3],
     [DefaultIntensity EXCEPT !.minByLevel[0] = 1]}

NoSeed == [given |-> FALSE, text |-> <<>>]
SeedTest == [given |-> TRUE, text |-> <<116, 101, 115, 116>>]   \* "test"
Seeds == {NoSeed, SeedTest}

\* Start dates: a Sunday before a leap day, the days around the end of
\* daylight saving time, and a date that is not a calendar date.
StartDates ==
    {IsoString(2024, 1, 7), IsoString(2023, 11, 5), IsoString(2023, 11, 6),
     IsoString(2023, 2, 30)}

EndDatesFor(startDate) ==
    IF RefIsRealDate(startDate)
    THEN RefDatesAfter(startDate, 356 - MaxSlack, 356 + MaxSlack)
    ELSE {IsoString(2024, 2, 21)}

PlanArgs(grid, startDate, endDate, intensityMap, randomSeed) ==
    [grid |-> grid, dateRange |-> [startDate |-> startDate, endDate |-> endDate],
     intensityMap |-> intensityMap, randomSeed |-> randomSeed]

\* The runs tried: every date range in every zone with the empty grid,
\* every grid, map and seed with one valid range, and every map with a
\* painted grid and a range of 356 days that starts in US standard time and
\* ends in daylight saving time.
PlanCases ==
    UNION {{[zone |-> z, main |-> PlanArgs(PatternGrid(0), s, e, DefaultIntensity, NoSeed)] :
               z \in Zones, e \in EndDatesFor(s)} : s \in StartDates}
    \cup {[zone |-> "UTC",
           main |-> PlanArgs(PatternGrid(k), IsoString(2023, 12, 31), IsoString(2024, 12, 21), m, sd)] :
        k \in 0..MaxGrid, m \in IntensityMaps, sd \in Seeds}
    \cup {[zone |-> "US",
           main |-> PlanArgs(PatternGrid(1), IsoString(2023, 11, 6), IsoString(2024, 10, 27), m, NoSeed)] :
        m \in IntensityMaps}

OtherArgs == PlanArgs(PatternGrid(1), IsoString(2023, 1, 1), IsoString(2023, 12, 23),
                      DefaultIntensity, SeedTest)

(***************************************************************************)
(* The file system at the target repository path, and the external         *)
(* operations on it: node:fs/promises and the git commands of runGit.      *)
(*                                                                         *)
(* A path is nothing, a plain file or a directory; a directory may hold a  *)
(* git repository (init), history.json, dump.txt with a number of mutation *)
(* lines (-1: no such file), the files whose content differs from the      *)
(* index (dirty), an index that differs from HEAD (staged) and commits.    *)
(***************************************************************************)
NoPath ==
    [kind |-> "none", init |-> FALSE, history |-> FALSE, dump |-> 0 - 1,
     dirty |-> {}, staged |-> FALSE, commits |-> 0]
PlainFile == [NoPath EXCEPT !.kind = "file"]
EmptyDir == [NoPath EXCEPT !.kind = "dir"]
OldRepo ==
    [kind |-> "dir", init |-> TRUE, history |-> TRUE, dump |-> 1,
     dirty |-> {}, staged |-> FALSE, commits |-> 1]

Done(fs) == [ok |-> TRUE, fs |-> fs]
Failed(fs) == [ok |-> FALSE, fs |-> fs]

\* An existence check that never finds the path.
pathExistsNever(fs) == FALSE

\* fs.access(path) resolves.
pathExists(fs) == fs.kind # "none"

\* fs.mkdir(path, { recursive: true })
fsMkdir(fs) ==
    IF fs.kind = "file" THEN Failed(fs)
    ELSE IF fs.kind = "none" THEN Done(EmptyDir) ELSE Done(fs)

\* fs.rm(path, { recursive: true, force: true })
fsRm(fs) == Done(NoPath)

\* fs.writeFile(path.join(repoPath, name), ...)
fsWriteFile(fs, name) ==
    IF fs.kind # "dir" THEN Failed(fs)
    ELSE IF name = "history.json"
         THEN Done([fs EXCEPT !.history = TRUE, !.dirty = @ \cup {name}])
         ELSE Done([fs EXCEPT !.dump = 0, !.dirty = @ \cup {name}])

\* A write of the line that replaces the content of the file.
fsAppendFileTruncating(fs) ==
    IF fs.kind # "dir" THEN Failed(fs)
    ELSE Done([fs EXCEPT !.dump = 1, !.dirty = @ \cup {"dump.txt"}])

\* fs.appendFile(path.join(repoPath, "dump.txt"), line)
fsAppendFile(fs) ==
    IF fs.kind # "dir" THEN Failed(fs)
    ELSE Done([fs EXCEPT !.dump = IF @ < 0 THEN 1 ELSE @ + 1, !.dirty = @ \cup {"dump.txt"}])

\* runGit(repoPath, args): the command's effect, or its failure (a missing
\* working directory, no repository, nothing to add, commit or list).
git(fs, args) ==
    IF fs.kind # "dir" THEN Failed(fs)
    ELSE IF args = "init" THEN Done([fs EXCEPT !.init = TRUE])
    ELSE IF ~fs.init THEN Failed(fs)
    ELSE IF args = "config" THEN Done(fs)
    ELSE IF args = "add history.json"
         THEN IF ~fs.history THEN Failed(fs)
              ELSE Done([fs EXCEPT !.staged = @ \/ "history.json" \in fs.dirty,
                                   !.dirty = @ \ {"history.json"}])
    ELSE IF args = "add dump.txt"
         THEN IF fs.dump < 0 THEN Failed(fs)
              ELSE Done([fs EXCEPT !.staged = @ \/ "dump.txt" \in fs.dirty,
                                   !.dirty = @ \ {"dump.txt"}])
    ELSE IF args = "commit"
         THEN IF ~fs.staged THEN Failed(fs)
              ELSE Done([fs EXCEPT !.staged = FALSE, !.commits = @ + 1])
    ELSE \* "log"
         IF fs.commits = 0 THEN Failed(fs) ELSE Done(fs)

(***************************************************************************)
(* generationController.generate and gitService.generateRepository, one    *)
(* step per awaited operation.                                             *)
(***************************************************************************)
Requests == {"r1"}

\* With a second request for the same path.
AllRequests == Requests \cup {"r2"}

NoResponse == [sent |-> FALSE, status |-> 0, error |-> NoError, gitLogSample |-> 0 - 1]

\* A request before it arrives.
IdleRequest ==
    [pc |-> "idle", entry |-> "none", failing |-> "ok", progressId |-> "",
     overwriteExisting |-> FALSE, dryRun |-> FALSE,
     onProgress |-> FALSE, plan |-> <<>>, found |-> "unchecked", ops |-> <<>>,
     emitted |-> <<>>, entryIndex |-> 0, i |-> 0, completedCommits |-> 0,
     lastPercent |-> 0 - 1, faultAt |-> 0, busy |-> FALSE, response |-> NoResponse]

(***************************************************************************)
(* progressService: the values of its store and emitter.                   *)
(*                                                                         *)
(* A ProgressState is [status, progress, message, error]; an optional      *)
(* string is <<>> when absent and <<text>> when present.  updatedAt is     *)
(* left out: no code reads it.                                             *)
(***************************************************************************)
Ids == {"a", "b"}

\* The event name for which an EventEmitter without a listener throws.
ErrorId == "error"

\* The keys of the store and of the emitter: any string a caller supplies.
AnyIds == Ids \cup {ErrorId}

\* progressStore.get(id) === undefined
Absent == [status |-> "absent", progress |-> 0, message |-> <<>>, error |-> <<>>]

\* No emitter.emit so far.
NoEmit == [id |-> "", state |-> Absent, call |-> "", progress |-> 0, threw |-> FALSE]

\* No listener called so far.
NoDelivery == [id |-> "", at |-> <<>>, to |-> <<>>]

NoRng == [ov |-> 0 - 1, w |-> <<0, 0>>]
\* timesCall before the call of buildCommitTimes.
NoTimesCall == [called |-> FALSE, isoDate |-> IsoString(0, 0, 0), count |-> 0, times |-> <<>>]
\* No arguments of generateRepository chosen.
NoReplayArgs == [plan |-> <<>>, firstGridDate |-> IsoString(0, 0, 0),
                 lastGridDate |-> IsoString(0, 0, 0), randomSeed |-> NoSeed]
NoFlat == [called |-> FALSE, error |-> NoError, flattened |-> <<>>]
\* gridCall before the call of validateGrid.
NoGridCall == [called |-> FALSE, grid |-> PatternGrid(0), error |-> NoError]

InitPlan ==
    /\ \E case \in PlanCases :
           /\ zone = case.zone
           /\ planInputs = [main |-> case.main, other |-> OtherArgs]
    /\ calls = <<>>
    /\ rng = NoRng
    /\ flat = NoFlat
    /\ gridCall = NoGridCall
    /\ timesCall = NoTimesCall
    /\ replayArgs = NoReplayArgs
    /\ runs = <<>>
    /\ rngCalls = NoRngCalls
    /\ fs0 = NoPath
    /\ fsys = NoPath
    /\ reqs = [r \in AllRequests |-> IdleRequest]
    /\ progressStore = [id \in AnyIds |-> Absent]
    /\ timers = [id \in AnyIds |-> 0]
    /\ emitted = NoEmit
    /\ listeners = [id \in AnyIds |-> <<>>]
    /\ subs = <<>>
    /\ delivered = NoDelivery

\* The call and what it returned or threw, recorded.
Returned(args, out) ==
    /\ calls' = Append(calls, [args |-> args, error |-> out.error,
                               plan |-> out.plan, summary |-> out.summary])
    /\ rng' = out.state

\* One synchronous invocation of buildCommitPlan.
Invoke(args) ==
    /\ Len(calls) < MaxCalls
    /\ Returned(args, buildCommitPlan(args.grid, args.dateRange, args.intensityMap,
                                      args.randomSeed))
    /\ UNCHANGED <<zone, planInputs, flat, gridCall, timesVars, genVars, progressVars>>

BuildCommitPlanMain == Invoke(planInputs.main)
BuildCommitPlanOther == Invoke(planInputs.other)

\* A direct call of flattenGrid on the main grid and start date.
FlattenGrid ==
    /\ ~flat.called
    /\ LET f == flattenGrid(planInputs.main.grid, planInputs.main.dateRange.startDate)
       IN  flat' = [called |-> TRUE, error |-> f.error, flattened |-> f.flattened]
    /\ UNCHANGED <<zone, planInputs, calls, rng, gridCall, timesVars, genVars, progressVars>>

NextPlan == BuildCommitPlanMain \/ BuildCommitPlanOther \/ FlattenGrid

SpecPlan == InitPlan /\ [][NextPlan]_vars

(***************************************************************************)
(* Direct calls of validateGrid, with grids of every shape.                *)
(***************************************************************************)
MaxBad == 2        \* cells with an invalid level in one grid

\* Deviations of a declared or an actual size from 7 and 51.
Deviations == {0 - 1, 0, 1}

\* Where invalid levels are put, and the invalid levels.
BadPositions == {<<1, 1>>, <<1, 51>>, <<2, 1>>, <<7, 51>>, <<4, 26>>}
BadLevels == {0 - 1, 5}

\* The sets of at most MaxBad positions.
BadSets == {cells \in SUBSET BadPositions : Cardinality(cells) <= MaxBad}

\* A payload grid: declared rows and cols, rowCount rows of 51 cells except
\* row oddRow (if any) with oddLength cells; the cells at `cells` hold level.
ShapedGrid(rows, cols, rowCount, oddRow, oddLength, cells, level) ==
    [rows |-> rows, cols |-> cols,
     levels |-> [r \in 1..rowCount |->
                    [c \in 1..(IF r = oddRow THEN oddLength ELSE 51) |->
                        IF <<r, c>> \in cells THEN level ELSE (r + c) % 5]]]

GridCases ==
    {ShapedGrid(7 + dr, 51 + dc, 7, 0, 51, cells, level) :
        dr \in Deviations, dc \in Deviations, cells \in BadSets, level \in BadLevels}
    \cup {ShapedGrid(7, 51, 7 + dn, oddRow, 51 + dl, cells, level) :
        dn \in Deviations, oddRow \in {0, 1, 2, 7}, dl \in Deviations \ {0},
        cells \in BadSets, level \in BadLevels}

InitGrid ==
    /\ gridCall \in {[NoGridCall EXCEPT !.grid = g] : g \in GridCases}
    /\ zone = "UTC"
    /\ planInputs = [main |-> OtherArgs, other |-> OtherArgs]
    /\ calls = <<>>
    /\ rng = NoRng
    /\ flat = NoFlat
    /\ timesCall = NoTimesCall
    /\ replayArgs = NoReplayArgs
    /\ runs = <<>>
    /\ rngCalls = NoRngCalls
    /\ fs0 = NoPath
    /\ fsys = NoPath
    /\ reqs = [r \in AllRequests |-> IdleRequest]
    /\ progressStore = [id \in AnyIds |-> Absent]
    /\ timers = [id \in AnyIds |-> 0]
    /\ emitted = NoEmit
    /\ listeners = [id \in AnyIds |-> <<>>]
    /\ subs = <<>>
    /\ delivered = NoDelivery

\* One call validateGrid(grid).
ValidateGrid ==
    /\ ~gridCall.called
    /\ gridCall' = [gridCall EXCEPT !.called = TRUE, !.error = validateGrid(gridCall.grid)]
    /\ UNCHANGED <<zone, planInputs, calls, rng, flat, timesVars, genVars, progressVars>>

NextGrid == ValidateGrid

SpecGrid == InitGrid /\ [][NextGrid]_vars

(***************************************************************************)
(* Properties of the planner (SpecPlan).                                   *)
(***************************************************************************)
Succeeded(call) == call.error = NoError

\* C1: buildCommitPlan is deterministic: any two invocations with identical
\* arguments, whatever was invoked before or between them, give the same
\* outcome, the same plan (dates, levels and commitCounts in the same order)
\* and the same summary.
C1_Deterministic ==
    \A i, j \in 1..Len(calls) :
        calls[i].args = calls[j].args
            => /\ calls[i].error = calls[j].error
               /\ calls[i].plan = calls[j].plan
               /\ calls[i].summary = calls[j].summary

\* Two successful invocations with the same arguments that drew commit
\* counts, with an invocation on other arguments between them.
C1_Witness ==
    \E i, j, k \in 1..Len(calls) :
        /\ i < k /\ k < j
        /\ calls[i].args = calls[j].args
        /\ calls[k].args # calls[i].args
        /\ Succeeded(calls[i]) /\ Succeeded(calls[j]) /\ Succeeded(calls[k])
        /\ calls[i].summary.totalCommits > 0
        /\ calls[k].summary.totalCommits > 0

EndIsStartPlus356(dateRange) ==
    RefDayNumber(dateRange.endDate) = RefDayNumber(dateRange.startDate) + 356

\* C2: for two well-formed dates with endDate other than startDate + 356
\* days, buildCommitPlan fails with the date-range validation error and
\* returns no plan and no summary; so a plan is returned only for
\* endDate = startDate + 356 days.
C2_EndDateChecked ==
    \A i \in 1..Len(calls) :
        LET range == calls[i].args.dateRange
        IN  (/\ RefIsRealDate(range.startDate)
             /\ RefIsRealDate(range.endDate)
             /\ ~EndIsStartPlus356(range))
                => /\ calls[i].error.kind = "ValidationError"
                   /\ calls[i].error.message[1] = "endDate must be"
                   /\ calls[i].plan = <<>>
                   /\ calls[i].summary = NoSummary

\* A call with two calendar dates one day short of the span was rejected
\* and a call with the right span returned a plan.
C2_Witness ==
    /\ \E i \in 1..Len(calls) :
           LET range == calls[i].args.dateRange
           IN  /\ RefIsRealDate(range.startDate) /\ RefIsRealDate(range.endDate)
               /\ RefDayNumber(range.endDate) = RefDayNumber(range.startDate) + 355
               /\ ~Succeeded(calls[i])
    /\ \E i \in 1..Len(calls) : Succeeded(calls[i]) /\ Len(calls[i].plan) = 357

\* C3: in every returned plan each entry's commitCount lies in the range
\* [minByLevel[level], maxByLevel[level]] of the supplied intensity map, and
\* each level-0 entry has commitCount = 0.
C3_CountWithinRange ==
    \A i \in 1..Len(calls) :
        Succeeded(calls[i]) =>
            \A k \in 1..Len(calls[i].plan) :
                LET entry == calls[i].plan[k]
                    map == calls[i].args.intensityMap
                IN  /\ entry.commitCount >= map.minByLevel[entry.level]
                    /\ entry.commitCount <= map.maxByLevel[entry.level]
                    /\ (entry.level = 0 => entry.commitCount = 0)

\* The sum of c times the number of entries with commitCount c, c = 1..top.
RECURSIVE RefWeightedCount(_, _)
RefWeightedCount(plan, top) ==
    IF top <= 0 THEN 0
    ELSE top * Cardinality({k \in 1..Len(plan) : plan[k].commitCount = top})
         + RefWeightedCount(plan, top - 1)

RefMaxCount(plan) ==
    IF Len(plan) = 0 THEN 0
    ELSE CHOOSE c \in {plan[k].commitCount : k \in 1..Len(plan)} :
             \A k \in 1..Len(plan) : plan[k].commitCount <= c

\* C4: for every plan returned with its summary, totalCommits is the sum of
\* the entries' commitCounts and activeDays the number of entries with
\* commitCount > 0.
C4_SummaryTotals ==
    \A i \in 1..Len(calls) :
        Succeeded(calls[i]) =>
            /\ calls[i].summary.totalCommits
                   = RefWeightedCount(calls[i].plan, RefMaxCount(calls[i].plan))
            /\ calls[i].summary.activeDays
                   = Cardinality({k \in 1..Len(calls[i].plan) :
                                     calls[i].plan[k].commitCount > 0})

\* A returned plan with active and inactive days.
C4_Witness ==
    \E i \in 1..Len(calls) :
        /\ Succeeded(calls[i])
        /\ calls[i].summary.activeDays > 1
        /\ calls[i].summary.activeDays < Len(calls[i].plan)
        /\ calls[i].summary.totalCommits > calls[i].summary.activeDays

RefValidGrid(grid) ==
    /\ grid.rows = 7 /\ grid.cols = 51
    /\ Len(grid.levels) = 7
    /\ \A r \in 1..7 : Len(grid.levels[r]) = 51 /\ \A c \in 1..51 : grid.levels[r][c] \in 0..4

\* Entry k (from 0) of a flattened grid: the date k days after startDate
\* and the level of row k mod 7, column k div 7.
RefFlatEntry(entry, k, grid, startDate) ==
    /\ RefIsRealDate(entry.date)
    /\ RefDayNumber(entry.date) = RefDayNumber(startDate) + k
    /\ entry.level = grid.levels[(k % 7) + 1][(k \div 7) + 1]

\* C5: for a valid grid and start date flattenGrid returns exactly 357
\* entries, entry k (k = 0..356) having the date startDate + k days and the
\* level grid.levels[k mod 7][k div 7]; getDateForCell(startDate, row, col)
\* is startDate + (col*7 + row) days.  The plans built from it list the
\* same dates and levels.
C5_FlattenChronological ==
    LET grid == planInputs.main.grid
        startDate == planInputs.main.dateRange.startDate
    IN  /\ (flat.called /\ RefValidGrid(grid) /\ RefIsRealDate(startDate)) =>
               /\ flat.error = NoError
               /\ Len(flat.flattened) = 357
               /\ \A k \in 0..356 : RefFlatEntry(flat.flattened[k + 1], k, grid, startDate)
               /\ \A r \in 0..6, c \in 0..50 :
                      LET cell == getDateForCell(startDate, r, c)
                      IN  /\ RefIsRealDate(cell)
                          /\ RefDayNumber(cell) = RefDayNumber(startDate) + c * 7 + r
        /\ \A i \in 1..Len(calls) :
               Succeeded(calls[i]) =>
                   /\ Len(calls[i].plan) = 357
                   /\ \A k \in 0..356 :
                          RefFlatEntry(calls[i].plan[k + 1], k, calls[i].args.grid,
                                       calls[i].args.dateRange.startDate)

\* flattenGrid was called on a painted grid whose dates cross a leap day
\* and the end of a year.
C5_Witness ==
    /\ flat.called /\ flat.error = NoError
    /\ Len(flat.flattened) = 357
    /\ \E k \in 1..357 : flat.flattened[k].level = 4
    /\ \E k \in 1..357 : flat.flattened[k].date = IsoString(2024, 2, 29)
    /\ flat.flattened[357].date.y > flat.flattened[1].date.y

(***************************************************************************)
(* services/gitService.ts: buildCommitTimes.                               *)
(***************************************************************************)
startHour == 9
endHour == 20
secondsRange == (endHour - startHour) * 60 * 60

\* new Date(`${isoDate}T09:00:00`) for a valid date string.
startOfCommits(isoDate) ==
    [nan |-> FALSE, day |-> parseLocalMidnight(isoDate).day, sec |-> startHour * 3600]

\* date.getSeconds()
getSeconds(date) == date.sec % 60

\* date.setSeconds(seconds): the local wall-clock time with its seconds field
\* replaced, carried into minutes, hours and days.
setSeconds(date, seconds) ==
    LET total == (date.sec - (date.sec % 60)) + seconds
    IN  [nan |-> FALSE, day |-> date.day + total \div 86400, sec |-> total % 86400]

\* Math.max(slotStart, slotEnd - 1)
maxOffset(slotStart, slotEnd) ==
    IF slotEnd - 1 > slotStart THEN slotEnd - 1 ELSE slotStart

\* commitDate.setSeconds(commitDate.getSeconds() + offsetSeconds); times.push
pushed(start, offsetSeconds, state) ==
    [times |-> <<setSeconds(start, getSeconds(start) + offsetSeconds)>>, state |-> state]

\* The Date pushed for a drawn offset, and the generator after the draw.
pushedDraw(start, draw) == pushed(start, draw.value, draw.state)

\* The end of a pass of the for loop, for a slot slotStart..top.
commitTimeIn(start, slotStart, top, state) ==
    IF top > slotStart THEN pushedDraw(start, randomInt(state, slotStart, top))
    ELSE pushed(start, slotStart, state)

\* One pass of the for loop of buildCommitTimes, for index i: the Date pushed
\* and the generator after it.
commitTimeAt(start, count, i, state) ==
    commitTimeIn(start, (i * secondsRange) \div count,
                 maxOffset((i * secondsRange) \div count, ((i + 1) * secondsRange) \div count),
                 state)

RECURSIVE commitTimesLoop(_, _, _, _, _)

\* The Dates of the earlier passes followed by those of the later ones.
timesJoin(left, right) == [times |-> left.times \o right.times, state |-> right.state]

\* The passes mid + 1..hi after the passes before them.
commitTimesRest(start, count, mid, hi, left) ==
    IF left.state.ov >= 0
    THEN timesJoin(left, commitTimesLoop(start, count, mid + 1, hi, left.state))
    ELSE left

\* The passes lo..hi of the for loop, in order of i.
commitTimesLoop(start, count, lo, hi, state) ==
    IF lo > hi THEN [times |-> <<>>, state |-> state]
    ELSE IF lo = hi THEN commitTimeAt(start, count, lo, state)
    ELSE commitTimesRest(start, count, (lo + hi) \div 2, hi,
                         commitTimesLoop(start, count, lo, (lo + hi) \div 2, state))

\* A loop that runs while i <= count.
lastPassInclusive(count) == count

\* The last index of the loop `for (let i = 0; i < count; i += 1)`.
lastPass(count) == count - 1

\* buildCommitTimes after `start` is built.
commitTimesFrom(start, count, state) ==
    IF count <= 0 THEN [times |-> <<>>, state |-> state]
    ELSE IF secondsRange <= 0 THEN [times |-> <<start>>, state |-> state]
    ELSE IF count = 1
    THEN pushedDraw(start, randomInt(state, 0, IF secondsRange - 1 > 0 THEN secondsRange - 1 ELSE 0))
    ELSE commitTimesLoop(start, count, 0, lastPass(count), state)

\* buildCommitTimes(isoDate, count, rng): the Dates returned and the generator
\* after the call.
buildCommitTimes(isoDate, count, state) == commitTimesFrom(startOfCommits(isoDate), count, state)

(***************************************************************************)
(* Calls of buildCommitTimes, with the generator of generateRepository.    *)
(***************************************************************************)
MaxCount == 3
MaxOver == 1
MaxDraws == 1

\* ":mutations"
MutationsSuffix == <<58, 109, 117, 116, 97, 116, 105, 111, 110, 115>>

\* Commit counts of one day: the small ones, and the ones around the number
\* of seconds of the commit window.
Counts == (0..MaxCount) \cup {secondsRange - 1, secondsRange, secondsRange + MaxOver}

\* Days in a zone: an ordinary day, and the two days the US clocks change.
TimesCases ==
    {[zone |-> "UTC", isoDate |-> IsoString(2023, 12, 31)],
     [zone |-> "US", isoDate |-> IsoString(2024, 3, 10)],
     [zone |-> "US", isoDate |-> IsoString(2024, 11, 3)]}

\* The seeds generateRepository derives its generator from: randomSeed, or
\* `${summary.firstGridDate}:${summary.lastGridDate}`.
TimesSeeds ==
    {SeedTest.text,
     isoChars(IsoString(2023, 12, 31)) \o <<58>> \o isoChars(IsoString(2024, 12, 21))}

\* The arguments of one call: a day, a count, and the generator of
\* generateRepository after the earlier days drew from it.
InitTimes ==
    /\ \E case \in TimesCases, count \in Counts :
           /\ zone = case.zone
           /\ timesCall = [NoTimesCall EXCEPT !.isoDate = case.isoDate, !.count = count]
    /\ \E seed \in TimesSeeds, draws \in 0..MaxDraws :
           rng = rngAdvanceBy(createRng(seed \o MutationsSuffix), draws)
    /\ replayArgs = NoReplayArgs
    /\ runs = <<>>
    /\ rngCalls = NoRngCalls
    /\ planInputs = [main |-> OtherArgs, other |-> OtherArgs]
    /\ calls = <<>>
    /\ flat = NoFlat
    /\ gridCall = NoGridCall
    /\ fs0 = NoPath
    /\ fsys = NoPath
    /\ reqs = [r \in AllRequests |-> IdleRequest]
    /\ progressStore = [id \in AnyIds |-> Absent]
    /\ timers = [id \in AnyIds |-> 0]
    /\ emitted = NoEmit
    /\ listeners = [id \in AnyIds |-> <<>>]
    /\ subs = <<>>
    /\ delivered = NoDelivery

\* The Dates returned, recorded.
TimesReturned(out) ==
    /\ timesCall' = [timesCall EXCEPT !.called = TRUE, !.times = out.times]
    /\ rng' = out.state

\* The call buildCommitTimes(entry.date, entry.commitCount, rng).
BuildCommitTimes ==
    /\ ~timesCall.called
    /\ TimesReturned(buildCommitTimes(timesCall.isoDate, timesCall.count, rng))
    /\ UNCHANGED <<zone, planInputs, calls, flat, gridCall, replayArgs, runs, rngCalls, genVars,
                   progressVars>>

NextTimes == BuildCommitTimes

SpecTimes == InitTimes /\ [][NextTimes]_vars

(***************************************************************************)
(* The commit loop of generateRepository (gitService.ts:96-123) with the   *)
(* arguments of its git commits, every operation succeeding.               *)
(***************************************************************************)
MaxRuns == 2
MaxEntries == 2
MaxDayCommits == 2

\* Plans, as the commitCount of their entries.
GenPlans == [1..MaxEntries -> 0..MaxDayCommits]

ManyCommits == 101

\* Plans with as many commits as there are percent values, and more.
LongPlans == {<<100>>, <<ManyCommits>>}

\* formatGitTimestamp for the local date c, second of the day sec and
\* -getTimezoneOffset() = offsetMinutes.
gitTimestampOf(c, sec, offsetMinutes) ==
    [y |-> c[1], m |-> c[2], d |-> c[3],
     hours |-> sec \div 3600, minutes |-> (sec % 3600) \div 60, seconds |-> sec % 60,
     sign |-> IF offsetMinutes >= 0 THEN "+" ELSE "-",
     offsetHours |-> (IF offsetMinutes >= 0 THEN offsetMinutes ELSE 0 - offsetMinutes) \div 60,
     offsetMins |-> (IF offsetMinutes >= 0 THEN offsetMinutes ELSE 0 - offsetMinutes) % 60]

\* formatGitTimestamp(date)
formatGitTimestamp(date) ==
    gitTimestampOf(CivilFromDays(date.day), date.sec, tzOffset(date.day, date.sec) \div 60)

\* The time of the wall clock at tick n, as git writes it.
WallClock(n) ==
    [y |-> 2026, m |-> 1, d |-> 1, hours |-> 0, minutes |-> 0, seconds |-> n,
     sign |-> "+", offsetHours |-> 0, offsetMins |-> 0]

\* "abcdefghijklmnopqrstuvwxyz0123456789"
alphabet ==
    <<"a", "b", "c", "d", "e", "f", "g", "h", "i", "j", "k", "l", "m", "n", "o", "p", "q", "r",
      "s", "t", "u", "v", "w", "x", "y", "z", "0", "1", "2", "3", "4", "5", "6", "7", "8", "9">>

\* result += alphabet[index], then the rest of the loop
tokenCons(ch, rest) == [token |-> <<ch>> \o rest.token, state |-> rest.state]

\* generateToken(rng, length): the token and the generator after it.
RECURSIVE generateToken(_, _)
tokenAfter(draw, length) ==
    tokenCons(alphabet[draw.value + 1], generateToken(draw.state, length - 1))

generateToken(state, length) ==
    IF length <= 0 THEN [token |-> <<>>, state |-> state]
    ELSE tokenAfter(randomInt(state, 0, Len(alphabet) - 1), length)

\* buildMutation(rng, dateLabel, commitIndex), given the token drawn.
mutationOf(drawn, dateLabel, commitIndex, now) ==
    [mutation |-> [timestamp |-> now, commitIndex |-> commitIndex,
                   payload |-> <<dateLabel, commitIndex, drawn.token>>],
     state |-> drawn.state]

buildMutation(state, dateLabel, commitIndex, now) ==
    mutationOf(generateToken(state, 16), dateLabel, commitIndex, now)

\* An environment that sets the author date only: git takes the committer
\* date from the wall clock.
commitEnvAuthorOnly(timestamp, now) ==
    [GIT_AUTHOR_DATE |-> timestamp, GIT_COMMITTER_DATE |-> now]

\* { ...process.env, GIT_AUTHOR_DATE: timestamp, GIT_COMMITTER_DATE: timestamp }
commitEnv(timestamp, now) ==
    [GIT_AUTHOR_DATE |-> timestamp, GIT_COMMITTER_DATE |-> timestamp]

\* git commit -m message --date date, run with env: the commit created.
gitCommit(message, date, env, line) ==
    [message |-> message, authorDate |-> date, committerDate |-> env.GIT_COMMITTER_DATE,
     line |-> line]

\* One pass of the inner loop, for commitTimes[i] (i from 0), given the
\* mutation built: appendDumpMutation, git add, git commit.
commitOf(date, i, timestamp, built, now) ==
    [commits |-> <<gitCommit(<<"chore(history):", date, "#", i + 1>>, timestamp,
                             commitEnv(timestamp, now), built.mutation)>>,
     state |-> built.state]

\* The commits of two stretches of the loop, and the generator after them.
commitsJoined(first, rest) ==
    [commits |-> first.commits \o rest.commits, state |-> rest.state]

RECURSIVE commitsFrom(_, _, _, _, _)
\* The commits of an entry after the pass for index i.
commitsAfter(first, date, commitTimes, i, now) ==
    IF first.state.ov >= 0
    THEN commitsJoined(first, commitsFrom(date, commitTimes, i + 1, first.state, now))
    ELSE first

\* The inner loop: for (let i = 0; i < commitTimes.length; i += 1)
commitsFrom(date, commitTimes, i, state, now) ==
    IF i >= Len(commitTimes) THEN [commits |-> <<>>, state |-> state]
    ELSE commitsAfter(commitOf(date, i, formatGitTimestamp(commitTimes[i + 1]),
                               buildMutation(state, date, i + 1, now), now),
                      date, commitTimes, i, now)

\* The body of the outer loop for one entry, given buildCommitTimes' result.
commitsOfTimes(date, built, now) == commitsFrom(date, built.times, 0, built.state, now)

commitsOfEntry(entry, state, now) ==
    IF entry.commitCount <= 0 THEN [commits |-> <<>>, state |-> state]
    ELSE commitsOfTimes(entry.date, buildCommitTimes(entry.date, entry.commitCount, state), now)

RECURSIVE commitsOfPlan(_, _, _, _)
\* The commits of the plan after those of entry k.
commitsOfRest(first, plan, k, now) ==
    IF first.state.ov >= 0
    THEN commitsJoined(first, commitsOfPlan(plan, k + 1, first.state, now))
    ELSE first

\* The outer loop: for (const entry of plan), from entry k on.
commitsOfPlan(plan, k, state, now) ==
    IF k > Len(plan) THEN [commits |-> <<>>, state |-> state]
    ELSE commitsOfRest(commitsOfEntry(plan[k], state, now), plan, k, now)

\* A generator that goes on from where the last run left it.
replayRngContinued(args) ==
    IF rng.ov < 0
    THEN createRng((IF args.randomSeed.given THEN args.randomSeed.text
                    ELSE isoChars(args.firstGridDate) \o <<58>> \o isoChars(args.lastGridDate))
                   \o MutationsSuffix)
    ELSE rng

\* seed = randomSeed ?? `${summary.firstGridDate}:${summary.lastGridDate}`;
\* rng = createRng(`${seed}:mutations`)
replayRng(args) ==
    createRng((IF args.randomSeed.given THEN args.randomSeed.text
               ELSE isoChars(args.firstGridDate) \o <<58>> \o isoChars(args.lastGridDate))
              \o MutationsSuffix)

\* Plans: consecutive days from a start date, as buildCommitPlan lists
\* them, with the commit counts of GenPlans.
ReplayPlan(start, counts) ==
    [k \in 1..Len(counts) |->
        [date |-> formatIsoDate(addDays(start, k - 1)), commitCount |-> counts[k]]]

\* Start days in a zone: the end of a year, and the days before the US
\* clocks change.
ReplayStarts ==
    {[zone |-> "UTC", start |-> IsoString(2023, 12, 31)],
     [zone |-> "US", start |-> IsoString(2024, 3, 9)],
     [zone |-> "US", start |-> IsoString(2024, 11, 2)]}

ReplayArgs(plan, randomSeed) ==
    [plan |-> plan, firstGridDate |-> plan[1].date, lastGridDate |-> plan[Len(plan)].date,
     randomSeed |-> randomSeed]

InitReplay ==
    /\ \E case \in ReplayStarts :
           /\ zone = case.zone
           /\ \E counts \in GenPlans, randomSeed \in Seeds :
                  replayArgs = ReplayArgs(ReplayPlan(case.start, counts), randomSeed)
    /\ runs = <<>>
    /\ rngCalls = NoRngCalls
    /\ rng = NoRng
    /\ timesCall = NoTimesCall
    /\ planInputs = [main |-> OtherArgs, other |-> OtherArgs]
    /\ calls = <<>>
    /\ flat = NoFlat
    /\ gridCall = NoGridCall
    /\ fs0 = NoPath
    /\ fsys = NoPath
    /\ reqs = [r \in AllRequests |-> IdleRequest]
    /\ progressStore = [id \in AnyIds |-> Absent]
    /\ timers = [id \in AnyIds |-> 0]
    /\ emitted = NoEmit
    /\ listeners = [id \in AnyIds |-> <<>>]
    /\ subs = <<>>
    /\ delivered = NoDelivery

\* The commits of a run, recorded.
Replayed(now, out) ==
    /\ runs' = Append(runs, [now |-> now, commits |-> out.commits])
    /\ rng' = out.state

\* One run of the commit loop, at the next tick of the wall clock.
ReplayCommits ==
    /\ Len(runs) < MaxRuns
    /\ Replayed(WallClock(Len(runs) + 1),
                commitsOfPlan(replayArgs.plan, 1, replayRng(replayArgs), WallClock(Len(runs) + 1)))
    /\ UNCHANGED <<zone, planInputs, calls, flat, gridCall, timesCall, replayArgs, rngCalls, genVars,
                   progressVars>>

NextReplay == ReplayCommits

SpecReplay == InitReplay /\ [][NextReplay]_vars

(***************************************************************************)
(* createRng (random.ts:11-20) called directly, over and over: from a      *)
(* fresh generator, and from one whose state is about to pass 2^53.        *)
(***************************************************************************)
MaxRngCalls == 20

\* The largest number of calls after which the state of every generator is
\* still below 2^53: (2^53 - 2^32) \div 0x6d2b79f5.
ExactCalls == 4917756

RngStarts == {0, ExactCalls}

RngSeeds == TimesSeeds \cup {<<>>, SeedTest.text \o MutationsSuffix}

InitRng ==
    /\ \E seed \in RngSeeds, start \in RngStarts :
           /\ rng = rngAdvanceBy(createRng(seed), start)
           /\ rngCalls = [seed |-> seed, n |-> start, value |-> <<0, 0>>]
    /\ zone = "UTC"
    /\ replayArgs = NoReplayArgs
    /\ runs = <<>>
    /\ timesCall = NoTimesCall
    /\ planInputs = [main |-> OtherArgs, other |-> OtherArgs]
    /\ calls = <<>>
    /\ flat = NoFlat
    /\ gridCall = NoGridCall
    /\ fs0 = NoPath
    /\ fsys = NoPath
    /\ reqs = [r \in AllRequests |-> IdleRequest]
    /\ progressStore = [id \in AnyIds |-> Absent]
    /\ timers = [id \in AnyIds |-> 0]
    /\ emitted = NoEmit
    /\ listeners = [id \in AnyIds |-> <<>>]
    /\ subs = <<>>
    /\ delivered = NoDelivery

\* The value of a call, recorded.
Drew(out) ==
    /\ rngCalls' = [rngCalls EXCEPT !.n = @ + 1, !.value = out.value]
    /\ rng' = out.state

\* One call rng().
CallRng ==
    /\ \E start \in RngStarts : rngCalls.n \in start..(start + MaxRngCalls - 1)
    /\ Drew(rngNext(rng))
    /\ UNCHANGED <<zone, planInputs, calls, flat, gridCall, timesCall, replayArgs, runs,
                   genVars, progressVars>>

NextRng == CallRng

SpecRng == InitRng /\ [][NextRng]_vars

(***************************************************************************)
(* generationController.generate and gitService.generateRepository, cont.  *)
(***************************************************************************)
\* summary.totalCommits of a plan given by its commit counts.
RECURSIVE totalCommits(_)
totalCommits(plan) ==
    IF plan = <<>> THEN 0 ELSE Head(plan) + totalCommits(Tail(plan))

\* errorHandler: the status of the response to a thrown error.
statusOf(error) ==
    IF error.kind \in {"ValidationError", "ConflictError", "InternalError"}
    THEN error.status ELSE 500

\* The request ends with a thrown error: next(error), or the rejection of
\* generateRepository.
throw(req, error) ==
    [req EXCEPT !.pc = "done",
                !.response = [sent |-> TRUE, status |-> statusOf(error), error |-> error,
                              gitLogSample |-> 0 - 1]]

\* An external operation that failed rejects with a plain Error.
ExternalError(name) == PlainError(<<name, "failed">>)

\* The request ends normally: generateRepository returns the log sample and
\* the handler answers 200.
return(req, sample) ==
    [req EXCEPT !.pc = "done",
                !.response = [sent |-> TRUE, status |-> 200, error |-> NoError,
                              gitLogSample |-> sample]]

\* The pairs (completedCommits, totalCommits) up to 130 commits for which the
\* double (completedCommits / totalCommits) * 100 lies just below the integer
\* that the exact quotient is.
RoundsBelow == {<<29, 50>>, <<29, 100>>, <<57, 100>>, <<58, 100>>}

\* Math.floor((completedCommits / totalCommits) * 100) in doubles.
floorPercent(completedCommits, total) ==
    (completedCommits * 100) \div total
    - (IF <<completedCommits, total>> \in RoundsBelow THEN 1 ELSE 0)

\* The percent reportProgress computes.
percentOf(req) ==
    IF totalCommits(req.plan) > 0
    THEN floorPercent(req.completedCommits, totalCommits(req.plan))
    ELSE 0

\* A call onProgress(percent, message), made by reportProgress (forced or
\* not) or directly, after the operations performed so far.
callOnProgress(req, percent, message, by) ==
    [req EXCEPT !.emitted = Append(@, [percent |-> percent, message |-> message, by |-> by,
                                       after |-> Len(req.ops)])]

\* A reportProgress that does not compare with the last percent.
reportProgressAlways(req, message, force) ==
    IF ~req.onProgress THEN req
    ELSE callOnProgress([req EXCEPT !.lastPercent = percentOf(req)], percentOf(req), message,
                    IF force THEN "forced" ELSE "commit")

\* reportProgress(message, force)
reportProgress(req, message, force) ==
    IF ~req.onProgress THEN req
    ELSE IF ~force /\ percentOf(req) = req.lastPercent THEN req
    ELSE callOnProgress([req EXCEPT !.lastPercent = percentOf(req)], percentOf(req), message,
                    IF force THEN "forced" ELSE "commit")

\* A final emission that always says "Finalizing".
reportFinalizing(req) ==
    IF ~req.onProgress THEN req ELSE callOnProgress(req, 100, "Finalizing", "final")

\* The final emission after the loop over the plan.
reportFinal(req) ==
    IF ~req.onProgress THEN req
    ELSE IF totalCommits(req.plan) = 0
         THEN callOnProgress(req, 100, "No commits to write", "final")
         ELSE callOnProgress(req, 100, "Finalizing", "final")

\* The index of the first entry at or after `from` with commitCount > 0, or
\* Len(plan) + 1: the entries the loop skips with `continue`.
RECURSIVE nextEntry(_, _)
nextEntry(plan, from) ==
    IF from > Len(plan) \/ plan[from] > 0 THEN from ELSE nextEntry(plan, from + 1)

\* The loop over the plan, positioned on commit i of entry entryIndex if the
\* entry has that many commits, else on the first commit of the next entry
\* with commits: pc "append"; or past the loop, the final emission made and
\* the log readback started.
toNextCommit(req, entryIndex, i) ==
    LET stay == entryIndex \in 1..Len(req.plan) /\ i <= req.plan[entryIndex]
        e == IF stay THEN entryIndex ELSE nextEntry(req.plan, entryIndex + 1)
    IN  IF e > Len(req.plan)
        THEN [reportFinal(req) EXCEPT !.pc = "log", !.entryIndex = e, !.i = 0]
        ELSE [req EXCEPT !.pc = "append", !.entryIndex = e, !.i = IF stay THEN i ELSE 1]

\* req with one more operation on the file system or the repository logged.
logged(req, op) ==
    [req EXCEPT !.ops = Append(@, [op |-> op, entry |-> req.entryIndex, i |-> req.i])]

\* The result of the next external operation of a request: the operation's
\* own, or a failure that leaves the path as it is when the environment makes
\* the operation with that number fail (execFile or fs rejects).
external(req, fs, result) ==
    IF req.faultAt = Len(req.ops) + 1 THEN Failed(fs) ELSE result

\* An await that goes on after a rejected operation.
awaitIgnoring(req, op, result, next) == next

\* The outcome of an awaited external operation: the request goes on as
\* `next`, or ends with the operation's error.
await(req, op, result, next) ==
    IF result.ok THEN next ELSE throw(logged(req, op), ExternalError(op))

\* A flag that is never read.
returnsEarlyNever(req) == FALSE

\* if (dryRun) { return []; }
returnsEarly(req) == req.dryRun

\* The validation of the handler that fails for a payload, if any.
Validations == {"ok", "folderName", "outputRoot", "plan"}

validationError(failing) ==
    IF failing = "folderName" THEN ValidationError(<<"Folder name is required.">>)
    ELSE IF failing = "outputRoot" THEN ValidationError(<<"Output root override is disabled by server.">>)
    ELSE ValidationError(<<"endDate must be", "for a 7x51 grid.">>)

\* A run of generateRepository that has found the path free and has not
\* ended: it is about to create the repository, or is writing it.
writing(req) == ~req.dryRun /\ req.found = "none" /\ req.pc # "done"

\* A handler that checks nothing.
failsValidationNever(req) == FALSE

\* assertSafeFolderName, resolveOutputRoot or createPlan throws for the payload.
failsValidation(req) == req.failing # "ok"

InitGen ==
    /\ fs0 \in {NoPath, PlainFile, EmptyDir, OldRepo}
    /\ fsys = fs0
    /\ reqs = [r \in AllRequests |-> IdleRequest]
    /\ progressStore = [id \in AnyIds |-> Absent]
    /\ timers = [id \in AnyIds |-> 0]
    /\ emitted = NoEmit
    /\ listeners = [id \in AnyIds |-> <<>>]
    /\ subs = <<>>
    /\ delivered = NoDelivery
    /\ zone = "UTC"
    /\ planInputs = [main |-> OtherArgs, other |-> OtherArgs]
    /\ calls = <<>>
    /\ rng = NoRng
    /\ flat = NoFlat
    /\ gridCall = NoGridCall
    /\ timesCall = NoTimesCall
    /\ replayArgs = NoReplayArgs
    /\ runs = <<>>
    /\ rngCalls = NoRngCalls

\* POST /generate: the handler up to its first await.  An absent
\* overwriteExisting or dryRun is falsy; the payload's progressId ("" when
\* absent) is not read, and the handler passes no onProgress.
GenerateWith(r, overwriteExisting, dryRun, failing, plan, progressId) ==
    /\ reqs[r].pc = "idle"
    /\ LET req == [reqs[r] EXCEPT !.entry = "handler",
                                  !.failing = failing,
                                  !.progressId = progressId,
                                  !.overwriteExisting = overwriteExisting,
                                  !.dryRun = dryRun,
                                  !.busy = \E q \in AllRequests \ {r} : writing(reqs[q]),
                                  !.plan = IF failing = "ok" THEN plan ELSE <<>>]
       IN  reqs' = [reqs EXCEPT ![r] =
               IF failsValidation(req) THEN throw(req, validationError(failing))
               ELSE IF overwriteExisting THEN [req EXCEPT !.pc = "stat"]
               ELSE [req EXCEPT !.pc = "access"]]
    /\ UNCHANGED <<fsys, fs0, planVars, timesVars, progressVars>>

Generate(r) ==
    \E overwriteExisting \in BOOLEAN, dryRun \in BOOLEAN, failing \in Validations,
       plan \in GenPlans, progressId \in {""} \cup Ids :
        GenerateWith(r, overwriteExisting, dryRun, failing, plan, progressId)

\* A call of generateRepository by a caller that may pass onProgress.
CallGenerateRepository(r) ==
    /\ reqs[r].pc = "idle"
    /\ \E dryRun \in BOOLEAN, onProgress \in BOOLEAN, plan \in GenPlans \cup LongPlans :
           reqs' = [reqs EXCEPT ![r] = [@ EXCEPT !.entry = "direct", !.dryRun = dryRun,
                                                 !.onProgress = onProgress, !.plan = plan,
                                                 !.pc = "access"]]
    /\ UNCHANGED <<fsys, fs0, planVars, timesVars, progressVars>>

\* removeExistingRepo: assertPathWithinRoot and fs.stat.
RemoveExistingRepoStat(r) ==
    /\ reqs[r].pc = "stat"
    /\ reqs' = [reqs EXCEPT ![r] =
           IF fsys.kind = "none" THEN [@ EXCEPT !.pc = "access"]
           ELSE IF fsys.kind # "dir"
                THEN throw(@, ValidationError(<<"Target path exists and is not a directory.">>))
                ELSE [@ EXCEPT !.pc = "rm"]]
    /\ UNCHANGED <<fsys, fs0, planVars, timesVars, progressVars>>

\* removeExistingRepo: fs.rm.
RemoveExistingRepoRm(r) ==
    /\ reqs[r].pc = "rm"
    /\ LET result == external(reqs[r], fsys, fsRm(fsys))
       IN  /\ fsys' = result.fs
           /\ reqs' = [reqs EXCEPT ![r] =
                  await(@, "rm", result, [logged(@, "rm") EXCEPT !.pc = "access"])]
    /\ UNCHANGED <<fs0, planVars, timesVars, progressVars>>

\* generateRepository up to fs.mkdir: assertRepoDoesNotExist, the dryRun
\* return and the first reportProgress.
AssertRepoDoesNotExist(r) ==
    /\ reqs[r].pc = "access"
    /\ LET req == [reqs[r] EXCEPT !.found = fsys.kind]
       IN  reqs' = [reqs EXCEPT ![r] =
               IF pathExists(fsys)
               THEN throw(req, ConflictError(<<"Repository path already exists:", "Choose another folder name.">>))
               ELSE IF returnsEarly(req) THEN return(req, 0)
               ELSE [reportProgress(req, "Initializing repository", TRUE) EXCEPT !.pc = "mkdir"]]
    /\ UNCHANGED <<fsys, fs0, planVars, timesVars, progressVars>>

\* An awaited operation of generateRepository between mkdir and the loop.
Setup(r, pc, op, result, nextPc) ==
    /\ reqs[r].pc = pc
    /\ fsys' = result.fs
    /\ reqs' = [reqs EXCEPT ![r] = await(@, op, result, [logged(@, op) EXCEPT !.pc = nextPc])]
    /\ UNCHANGED <<fs0, planVars, timesVars, progressVars>>

Mkdir(r) == Setup(r, "mkdir", "mkdir", external(reqs[r], fsys, fsMkdir(fsys)), "init")
GitInit(r) == Setup(r, "init", "git init", external(reqs[r], fsys, git(fsys, "init")), "config name")
GitConfigName(r) == Setup(r, "config name", "git config user.name", external(reqs[r], fsys, git(fsys, "config")), "config email")
GitConfigEmail(r) == Setup(r, "config email", "git config user.email", external(reqs[r], fsys, git(fsys, "config")), "metadata")
WriteRepoMetadata(r) ==
    Setup(r, "metadata", "write history.json", external(reqs[r], fsys, fsWriteFile(fsys, "history.json")), "dump")
EnsureDumpFile(r) == Setup(r, "dump", "write dump.txt", external(reqs[r], fsys, fsWriteFile(fsys, "dump.txt")), "add history")

\* git add history.json, then reportProgress("Writing commits", true),
\* createRng and the loop up to its first await.
GitAddHistory(r) ==
    /\ reqs[r].pc = "add history"
    /\ LET result == external(reqs[r], fsys, git(fsys, "add history.json"))
       IN  /\ fsys' = result.fs
           /\ reqs' = [reqs EXCEPT ![r] =
                  await(@, "git add history.json", result,
                        toNextCommit(reportProgress(logged(@, "git add history.json"),
                                                    "Writing commits", TRUE), 0, 0))]
    /\ UNCHANGED <<fs0, planVars, timesVars, progressVars>>

\* appendDumpMutation
AppendDumpMutation(r) ==
    /\ reqs[r].pc = "append"
    /\ LET result == external(reqs[r], fsys, fsAppendFile(fsys))
       IN  /\ fsys' = result.fs
           /\ reqs' = [reqs EXCEPT ![r] =
                  await(@, "append dump.txt", result,
                        [logged(@, "append dump.txt") EXCEPT !.pc = "add dump"])]
    /\ UNCHANGED <<fs0, planVars, timesVars, progressVars>>

\* git add dump.txt
GitAddDump(r) ==
    /\ reqs[r].pc = "add dump"
    /\ LET result == external(reqs[r], fsys, git(fsys, "add dump.txt"))
       IN  /\ fsys' = result.fs
           /\ reqs' = [reqs EXCEPT ![r] =
                  await(@, "git add dump.txt", result,
                        [logged(@, "git add dump.txt") EXCEPT !.pc = "commit"])]
    /\ UNCHANGED <<fs0, planVars, timesVars, progressVars>>

\* git commit, completedCommits += 1, reportProgress("Writing commits") and
\* the loop up to its next await; after the last commit, the final emission.
GitCommit(r) ==
    /\ reqs[r].pc = "commit"
    /\ LET result == external(reqs[r], fsys, git(fsys, "commit"))
           counted == [logged(reqs[r], "git commit") EXCEPT !.completedCommits = @ + 1]
       IN  /\ fsys' = result.fs
           /\ reqs' = [reqs EXCEPT ![r] =
                  await(@, "git commit", result,
                        toNextCommit(reportProgress(counted, "Writing commits", FALSE),
                                     counted.entryIndex, counted.i + 1))]
    /\ UNCHANGED <<fs0, planVars, timesVars, progressVars>>

\* getGitLogSample: git log -5 --oneline, and the return of
\* generateRepository (the handler then answers 200).
GetGitLogSample(r) ==
    /\ reqs[r].pc = "log"
    /\ LET result == external(reqs[r], fsys, git(fsys, "log"))
       IN  /\ fsys' = result.fs
           /\ reqs' = [reqs EXCEPT ![r] =
                  IF result.ok
                  THEN return(logged(@, "git log"), IF fsys.commits < 5 THEN fsys.commits ELSE 5)
                  ELSE throw(logged(@, "git log"),
                             InternalError(<<"Unable to read git log after generation.">>))]
    /\ UNCHANGED <<fs0, planVars, timesVars, progressVars>>

\* The pcs at which the next step is an operation that changes the
\* repository or reads its log.
OperationPcs ==
    {"rm", "mkdir", "init", "config name", "config email", "metadata", "dump", "add history",
     "append", "add dump", "commit", "log"}

\* The environment makes the next external operation of request r fail (a
\* full disk, a git that exits with an error).
OperationFails(r) ==
    /\ reqs[r].pc \in OperationPcs
    /\ reqs[r].faultAt = 0
    /\ reqs' = [reqs EXCEPT ![r].faultAt = Len(reqs[r].ops) + 1]
    /\ UNCHANGED <<fsys, fs0, planVars, timesVars, progressVars>>

NextGen ==
    \E r \in Requests :
        \/ Generate(r)
        \/ OperationFails(r)
        \/ CallGenerateRepository(r)
        \/ RemoveExistingRepoStat(r)
        \/ RemoveExistingRepoRm(r)
        \/ AssertRepoDoesNotExist(r)
        \/ Mkdir(r)
        \/ GitInit(r)
        \/ GitConfigName(r)
        \/ GitConfigEmail(r)
        \/ WriteRepoMetadata(r)
        \/ EnsureDumpFile(r)
        \/ GitAddHistory(r)
        \/ AppendDumpMutation(r)
        \/ GitAddDump(r)
        \/ GitCommit(r)
        \/ GetGitLogSample(r)

SpecGen == InitGen /\ [][NextGen]_vars

(***************************************************************************)
(* progressService                                                         *)
(***************************************************************************)
MaxExcess == 1
MaxTimers == 1

\* A clamp without its lower bound.
clampProgressUpper(value) == IF value > 100 THEN 100 ELSE value

\* clampProgress(value) on integers: Math.min(100, Math.max(0, Math.round(value)))
clampProgress(value) ==
    IF value < 0 THEN 0 ELSE IF value > 100 THEN 100 ELSE value

\* message ?? fallback
orElse(message, fallback) == IF message = <<>> THEN fallback ELSE message

\* The state ensureProgress(id) returns: the stored one, or a new pending one.
ensured(id) ==
    IF progressStore[id] # Absent THEN progressStore[id]
    ELSE [status |-> "pending", progress |-> 0, message |-> <<"Waiting for generation">>,
          error |-> <<>>]

\* An emit that calls only the listener registered first.
emitToFirst(id, state, stored) ==
    [k \in 1..(IF listeners[id] = <<>> THEN 0 ELSE 1) |->
        [fn |-> listeners[id][k].fn, sub |-> listeners[id][k].sub,
         state |-> state, seen |-> stored]]

\* emitter.emit(id, state): one call of every listener registered for id, in
\* the order of registration, each with state; seen is what the store holds
\* for id while the listeners run.
emit(id, state, stored) ==
    [k \in 1..Len(listeners[id]) |->
        [fn |-> listeners[id][k].fn, sub |-> listeners[id][k].sub,
         state |-> state, seen |-> stored]]

\* emitter.emit(id, state) throws: the event is "error" and nothing listens
\* to it.
emitThrows(id) == id = ErrorId /\ listeners[id] = <<>>

\* What the connections have been sent after the listener calls of an emit:
\* send writes the state it is called with to its response.
received(to) ==
    [k \in DOMAIN subs |->
        IF subs[k].conn /\ \E e \in DOMAIN to : to[e].sub = k
        THEN [subs[k] EXCEPT !.received = Append(@, to[CHOOSE e \in DOMAIN to : to[e].sub = k].state)]
        ELSE subs[k]]

\* The listener calls of an emit, recorded.
emitted_to(id, to) ==
    /\ delivered' = [id |-> id, at |-> listeners[id], to |-> to]
    /\ subs' = received(to)

\* publish(state), for the call that makes it: progressStore.set, then
\* emitter.emit.
publish(id, state, call, progress) ==
    /\ progressStore' = [progressStore EXCEPT ![id] = state]
    /\ emitted' = [id |-> id, state |-> state, call |-> call, progress |-> progress,
                   threw |-> emitThrows(id)]
    /\ emitted_to(id, emit(id, state, state))
    /\ UNCHANGED listeners

\* Percent arguments: around 0, in the middle, around 100.
Percents == (0 - MaxExcess..0) \cup {50} \cup (100..100 + MaxExcess)

\* Optional message arguments.
Messages == {<<>>, <<"m">>}

InitProgress ==
    /\ progressStore = [id \in AnyIds |-> Absent]
    /\ timers = [id \in AnyIds |-> 0]
    /\ emitted = NoEmit
    /\ listeners = [id \in AnyIds |-> <<>>]
    /\ subs = <<>>
    /\ delivered = NoDelivery
    /\ fs0 = NoPath
    /\ fsys = NoPath
    /\ reqs = [r \in AllRequests |-> IdleRequest]
    /\ zone = "UTC"
    /\ planInputs = [main |-> OtherArgs, other |-> OtherArgs]
    /\ calls = <<>>
    /\ rng = NoRng
    /\ flat = NoFlat
    /\ gridCall = NoGridCall
    /\ timesCall = NoTimesCall
    /\ replayArgs = NoReplayArgs
    /\ runs = <<>>
    /\ rngCalls = NoRngCalls

\* ensureProgress(id)
EnsureProgress(id) ==
    /\ progressStore' = [progressStore EXCEPT ![id] = ensured(id)]
    /\ UNCHANGED <<timers, emitted, listenVars, planVars, timesVars, genVars>>

\* The state startProgress builds.
started(message) ==
    [status |-> "running", progress |-> 0,
     message |-> orElse(message, <<"Starting generation">>), error |-> <<>>]

\* startProgress(id, message)
StartProgress(id, message) ==
    /\ publish(id, started(message), "startProgress", 0)
    /\ UNCHANGED <<timers, planVars, timesVars, genVars>>

\* updateProgress(id, progress, message)
UpdateProgress(id, progress, message) ==
    /\ publish(id, [ensured(id) EXCEPT !.status = "running",
                                       !.progress = clampProgress(progress),
                                       !.message = orElse(message, ensured(id).message)],
               "updateProgress", progress)
    /\ UNCHANGED <<timers, planVars, timesVars, genVars>>

\* completeProgress(id, message), with the cleanup timeout it schedules
\* unless publish threw.
CompleteProgress(id, message) ==
    /\ timers[id] < MaxTimers
    /\ publish(id, [ensured(id) EXCEPT !.status = "complete", !.progress = 100,
                                       !.message = orElse(message, <<"Complete">>)],
               "completeProgress", 100)
    /\ timers' = IF emitThrows(id) THEN timers ELSE [timers EXCEPT ![id] = @ + 1]
    /\ UNCHANGED <<planVars, timesVars, genVars>>

\* failProgress(id, error), with the cleanup timeout it schedules unless
\* publish threw.
FailProgress(id, error) ==
    /\ timers[id] < MaxTimers
    /\ publish(id, [ensured(id) EXCEPT !.status = "error", !.error = error,
                                       !.message = <<"Generation failed">>],
               "failProgress", ensured(id).progress)
    /\ timers' = IF emitThrows(id) THEN timers ELSE [timers EXCEPT ![id] = @ + 1]
    /\ UNCHANGED <<planVars, timesVars, genVars>>

\* The callback of a cleanup timeout, CLEANUP_DELAY_MS after it was set.
Cleanup(id) ==
    /\ timers[id] > 0
    /\ progressStore' = [progressStore EXCEPT ![id] = Absent]
    /\ timers' = [timers EXCEPT ![id] = @ - 1]
    /\ UNCHANGED <<emitted, listenVars, planVars, timesVars, genVars>>

NextProgress ==
    \E id \in Ids :
        \/ EnsureProgress(id)
        \/ \E message \in Messages : StartProgress(id, message)
        \/ \E progress \in Percents, message \in Messages : UpdateProgress(id, progress, message)
        \/ \E message \in Messages : CompleteProgress(id, message)
        \/ FailProgress(id, <<"e">>)
        \/ Cleanup(id)

SpecProgress == InitProgress /\ [][NextProgress]_vars

(***************************************************************************)
(* progressService with subscribers, and the progress connections of the   *)
(* router.  A listener function is <<name, n>>: <<"f", 0>> and <<"g", 0>>   *)
(* are functions of a caller, <<"send", k>> is the closure made by the     *)
(* k-th subscription's connection.                                         *)
(***************************************************************************)
MaxSubs == 2
MaxOffCalls == 2
MaxReceived == 3

Fns == {<<"f", 0>>, <<"g", 0>>}

\* The positions in a listener array that hold fn.
positionsOf(array, fn) == {k \in DOMAIN array : array[k].fn = fn}

\* The position emitter.off(id, fn) removes: the last one holding fn.
lastPositionOf(array, fn) ==
    CHOOSE k \in positionsOf(array, fn) : \A j \in positionsOf(array, fn) : j <= k

\* array without its element at position k
without(array, k) == SubSeq(array, 1, k - 1) \o SubSeq(array, k + 1, Len(array))

\* An off that removes nothing.
offNothing(array, fn) == array

\* emitter.off(id, fn): removes the most recently added instance of fn from
\* the listener array of id, if there is one.
off(array, fn) ==
    IF positionsOf(array, fn) = {} THEN array ELSE without(array, lastPositionOf(array, fn))

\* emitter.on(id, fn) for a new subscription
on(id, fn) == [listeners EXCEPT ![id] = Append(@, [fn |-> fn, sub |-> Len(subs) + 1])]

\* subscribeProgress(id, listener)
SubscribeProgress(id, fn) ==
    /\ Len(subs) < MaxSubs
    /\ listeners' = on(id, fn)
    /\ subs' = Append(subs, [id |-> id, fn |-> fn, offCalls |-> 0, received |-> <<>>,
                             conn |-> FALSE, open |-> FALSE])
    /\ UNCHANGED <<progressStore, timers, emitted, delivered, planVars, timesVars, genVars>>

\* A call of the function subscribeProgress returned for subscription k.
Unsubscribe(k) ==
    /\ ~subs[k].conn
    /\ subs[k].offCalls < MaxOffCalls
    /\ listeners' = [listeners EXCEPT ![subs[k].id] = off(@, subs[k].fn)]
    /\ subs' = [subs EXCEPT ![k].offCalls = @ + 1]
    /\ UNCHANGED <<progressStore, timers, emitted, delivered, planVars, timesVars, genVars>>

\* GET /progress/:id: the current or a new pending state is sent first, then
\* send is subscribed; all in one synchronous handler.
ProgressConnection(id) ==
    /\ Len(subs) < MaxSubs
    /\ progressStore' = [progressStore EXCEPT ![id] = ensured(id)]
    /\ listeners' = on(id, <<"send", Len(subs) + 1>>)
    /\ subs' = Append(subs, [id |-> id, fn |-> <<"send", Len(subs) + 1>>, offCalls |-> 0,
                             received |-> <<ensured(id)>>, conn |-> TRUE, open |-> TRUE])
    /\ UNCHANGED <<timers, emitted, delivered, planVars, timesVars, genVars>>

\* The "close" event of the request of connection k: unsubscribe().
ConnectionClose(k) ==
    /\ subs[k].conn
    /\ subs[k].open
    /\ listeners' = [listeners EXCEPT ![subs[k].id] = off(@, subs[k].fn)]
    /\ subs' = [subs EXCEPT ![k].open = FALSE, ![k].offCalls = @ + 1]
    /\ UNCHANGED <<progressStore, timers, emitted, delivered, planVars, timesVars, genVars>>

\* No listener of id has received MaxReceived states yet.
canReceive(id) ==
    \A e \in DOMAIN listeners[id] : Len(subs[listeners[id][e].sub].received) < MaxReceived

\* The plan of the requests that run side by side: two days of one commit.
ConcurrentPlan == <<1, 1>>

\* Two POST /generate for the same path, their awaited steps interleaved
\* as the event loop allows; every operation succeeds unless the path's
\* state makes it fail.
NextConcurrent ==
    \E r \in AllRequests :
        \/ \E overwriteExisting \in BOOLEAN :
               GenerateWith(r, overwriteExisting, FALSE, "ok", ConcurrentPlan, "")
        \/ RemoveExistingRepoStat(r)
        \/ RemoveExistingRepoRm(r)
        \/ AssertRepoDoesNotExist(r)
        \/ Mkdir(r)
        \/ GitInit(r)
        \/ GitConfigName(r)
        \/ GitConfigEmail(r)
        \/ WriteRepoMetadata(r)
        \/ EnsureDumpFile(r)
        \/ GitAddHistory(r)
        \/ AppendDumpMutation(r)
        \/ GitAddDump(r)
        \/ GitCommit(r)
        \/ GetGitLogSample(r)

SpecConcurrent == InitGen /\ [][NextConcurrent]_vars

\* POST /generate next to a connection of GET /progress/:id.
NextGenerateProgress ==
    \/ \E r \in Requests :
           \/ Generate(r)
           \/ RemoveExistingRepoStat(r)
           \/ RemoveExistingRepoRm(r)
           \/ AssertRepoDoesNotExist(r)
           \/ Mkdir(r)
           \/ GitInit(r)
           \/ GitConfigName(r)
           \/ GitConfigEmail(r)
           \/ WriteRepoMetadata(r)
           \/ EnsureDumpFile(r)
           \/ GitAddHistory(r)
           \/ AppendDumpMutation(r)
           \/ GitAddDump(r)
           \/ GitCommit(r)
           \/ GetGitLogSample(r)
    \/ \E id \in Ids : subs = <<>> /\ ProgressConnection(id)
    \/ \E k \in DOMAIN subs : ConnectionClose(k)

SpecGenerateProgress == InitGen /\ [][NextGenerateProgress]_vars

\* The id of the generation that runs while listeners subscribe to any id.
GenerationId == "a"

NextListen ==
    \/ \E id \in Ids, fn \in Fns : SubscribeProgress(id, fn)
    \/ StartProgress(GenerationId, <<>>)
    \/ UpdateProgress(GenerationId, 50, <<>>)
    \/ CompleteProgress(GenerationId, <<>>)
    \/ FailProgress(GenerationId, <<"e">>)
    \/ Cleanup(GenerationId)
    \/ \E k \in DOMAIN subs : Unsubscribe(k)

SpecListen == InitProgress /\ [][NextListen]_vars

\* The progress calls of a generation whose progress id is "error", while
\* listeners subscribe to that id and unsubscribe.
NextErrorId ==
    \/ \E fn \in Fns : SubscribeProgress(ErrorId, fn)
    \/ \E message \in Messages : StartProgress(ErrorId, message)
    \/ \E message \in Messages : UpdateProgress(ErrorId, 50, message)
    \/ \E message \in Messages : CompleteProgress(ErrorId, message)
    \/ FailProgress(ErrorId, <<"e">>)
    \/ Cleanup(ErrorId)
    \/ \E k \in DOMAIN subs : Unsubscribe(k)

SpecErrorId == InitProgress /\ [][NextErrorId]_vars

\* The store when a client connects: empty, or holding what an earlier
\* startProgress(GenerationId) published.
InitConnection ==
    /\ \E before \in {{}, {GenerationId}} :
           /\ progressStore = [id \in AnyIds |-> IF id \in before THEN started(<<>>) ELSE Absent]
           /\ emitted = IF before = {} THEN NoEmit
                        ELSE [id |-> CHOOSE id \in before : TRUE, state |-> started(<<>>),
                              call |-> "startProgress", progress |-> 0, threw |-> FALSE]
           /\ delivered = IF before = {} THEN NoDelivery
                          ELSE [id |-> CHOOSE id \in before : TRUE, at |-> <<>>, to |-> <<>>]
    /\ timers = [id \in AnyIds |-> 0]
    /\ listeners = [id \in AnyIds |-> <<>>]
    /\ subs = <<>>
    /\ fs0 = NoPath
    /\ fsys = NoPath
    /\ reqs = [r \in AllRequests |-> IdleRequest]
    /\ zone = "UTC"
    /\ planInputs = [main |-> OtherArgs, other |-> OtherArgs]
    /\ calls = <<>>
    /\ rng = NoRng
    /\ flat = NoFlat
    /\ gridCall = NoGridCall
    /\ timesCall = NoTimesCall
    /\ replayArgs = NoReplayArgs
    /\ runs = <<>>
    /\ rngCalls = NoRngCalls

\* One client connects; the progress calls that follow its connection.
NextConnection ==
    \/ \E id \in Ids : subs = <<>> /\ ProgressConnection(id)
    \/ Cleanup(GenerationId)
    \/ /\ subs # <<>>
       /\ canReceive(GenerationId)
       /\ \/ StartProgress(GenerationId, <<>>)
          \/ UpdateProgress(GenerationId, 50, <<>>)
          \/ CompleteProgress(GenerationId, <<>>)
          \/ FailProgress(GenerationId, <<"e">>)
    \/ \E k \in DOMAIN subs : ConnectionClose(k)

SpecConnection == InitConnection /\ [][NextConnection]_vars

(***************************************************************************)
(* Properties of buildCommitTimes (SpecTimes).                             *)
(***************************************************************************)
\* 09:00:00 local time on a real calendar date, as seconds since the epoch.
RefNineOClock(isoDate) ==
    LET day == RefDayNumber(isoDate) + 10957
    IN  day * 86400 + 9 * 3600 - tzOffset(day, 9 * 3600)

\* C6: a call buildCommitTimes(isoDate, count, rng) with count >= 0 returns
\* exactly count timestamps, each 0..39599 seconds after 09:00 local time of
\* isoDate, in non-decreasing order; this also holds when count > 39600.
C6_TimesInWindow ==
    timesCall.called =>
        LET nine == RefNineOClock(timesCall.isoDate)
            at == [i \in 1..Len(timesCall.times) |-> getTime(timesCall.times[i])]
        IN  /\ Len(timesCall.times) = timesCall.count
            /\ \A i \in 1..Len(timesCall.times) :
                   /\ ~timesCall.times[i].nan
                   /\ at[i] - nine \in 0..39599
                   /\ i > 1 => at[i - 1] <= at[i]

\* A call with more commits than the window has seconds has returned them all.
C6_Witness ==
    /\ timesCall.called
    /\ timesCall.count > 39600
    /\ Len(timesCall.times) = timesCall.count
    /\ \E i \in 2..Len(timesCall.times) : timesCall.times[i - 1] = timesCall.times[i]

(***************************************************************************)
(* Properties of the generate handler and generateRepository (SpecGen).    *)
(***************************************************************************)
\* The operations of generateRepository among those a request performed
\* (the handler's own removal of the old directory left out).
OpsOfGenerateRepository(req) == SelectSeq(req.ops, LAMBDA o : o.op # "rm")

\* C7: a generate request with overwriteExisting false that passes validation
\* while something exists at the target path is answered 409 (ConflictError)
\* and has created, modified or deleted nothing; and whatever a request
\* without overwriteExisting does to the file system or the repository, it
\* does after its existence check found nothing at the path.
C7_ConflictBeforeMutation ==
    \A r \in Requests :
        LET req == reqs[r]
        IN  (req.entry = "handler" /\ ~req.overwriteExisting) =>
                /\ (/\ req.pc = "done"
                    /\ req.response.error.kind # "ValidationError"
                    /\ fs0.kind # "none")
                   => /\ req.response.status = 409
                      /\ req.response.error.kind = "ConflictError"
                      /\ req.ops = <<>>
                      /\ fsys = fs0
                /\ req.ops # <<>> => req.found = "none"

\* A request without overwriteExisting has been refused on an old repository.
C7_Witness ==
    \E r \in Requests :
        /\ reqs[r].entry = "handler"
        /\ ~reqs[r].overwriteExisting
        /\ reqs[r].found = "dir"
        /\ reqs[r].response.status = 409
        /\ fs0 = OldRepo
        /\ fsys = OldRepo

\* C8: once generateRepository with dryRun = true has checked the path, it
\* has run no file operation and no git command and has not called
\* onProgress; it returns an empty log sample if nothing was at the path and
\* throws the ConflictError if something was.
C8_DryRunTouchesNothing ==
    \A r \in Requests :
        LET req == reqs[r]
        IN  (req.dryRun /\ req.found # "unchecked") =>
                /\ req.pc = "done"
                /\ OpsOfGenerateRepository(req) = <<>>
                /\ req.emitted = <<>>
                /\ fsys.kind = req.found
                /\ IF req.found = "none"
                   THEN req.response.error = NoError /\ req.response.gitLogSample = 0
                   ELSE req.response.error.kind = "ConflictError" /\ req.response.status = 409

\* A dry run with a progress callback has returned on a free path.
C8_Witness ==
    \E r \in Requests :
        /\ reqs[r].entry = "direct"
        /\ reqs[r].dryRun
        /\ reqs[r].onProgress
        /\ reqs[r].found = "none"
        /\ reqs[r].pc = "done"
        /\ reqs[r].response.gitLogSample = 0

(***************************************************************************)
(* Properties of progressService (SpecProgress).                           *)
(***************************************************************************)
Terminal == {"complete", "error"}

\* C9: once the stored status of an id is complete or error, no later call of
\* ensureProgress, startProgress, updateProgress, completeProgress or
\* failProgress changes the stored status of that id.
C9_TerminalStatusIsFinal ==
    [][\A id \in Ids :
           (progressStore[id].status \in Terminal /\ progressStore'[id] # Absent)
               => progressStore'[id].status = progressStore[id].status]_vars

\* min(100, max(0, p)) by cases.
RefClamp(p) == CHOOSE c \in 0..100 : (p \in 0..100 => c = p) /\ (p < 0 => c = 0) /\ (p > 100 => c = 100)

\* C10: every stored and every published ProgressState has 0 <= progress <= 100,
\* and updateProgress(id, p) publishes and stores status running with
\* progress = min(100, max(0, p)).
C10_ProgressWithinBounds ==
    /\ \A id \in Ids : progressStore[id].progress \in 0..100
    /\ emitted.state.progress \in 0..100
    /\ emitted.call = "updateProgress" =>
           /\ emitted.state.status = "running"
           /\ emitted.state.progress = RefClamp(emitted.progress)

\* updateProgress has been called with a percent above 100, and 100 is stored.
C10_Witness ==
    /\ emitted.call = "updateProgress"
    /\ emitted.progress > 100
    /\ progressStore[emitted.id] = emitted.state
    /\ emitted.state.progress = 100

(***************************************************************************)
(* Properties of the subscriptions (SpecListen).                           *)
(***************************************************************************)
\* C11: the last call of startProgress, updateProgress, completeProgress or
\* failProgress for an id called, in order, every listener registered for
\* that id at that moment, once per subscription, each with the state of the
\* call while the store already held that state for the id, and called no
\* listener of a subscription to another id.
C11_PublishReachesSubscribers ==
    emitted.call # "" =>
        /\ delivered.id = emitted.id
        /\ Len(delivered.to) = Len(delivered.at)
        /\ \A e \in DOMAIN delivered.to :
               /\ delivered.to[e].fn = delivered.at[e].fn
               /\ delivered.to[e].sub = delivered.at[e].sub
               /\ delivered.to[e].state = emitted.state
               /\ delivered.to[e].seen = emitted.state
               /\ subs[delivered.to[e].sub].id = emitted.id
        /\ \A k \in DOMAIN subs :
               Cardinality({e \in DOMAIN delivered.to : delivered.to[e].sub = k})
                   = Cardinality({e \in DOMAIN delivered.at : delivered.at[e].sub = k})

\* A publish for an id with two listeners has called both, while a
\* subscription history with another id exists or not.
C11_Witness ==
    /\ emitted.call = "completeProgress"
    /\ Len(delivered.at) = 2
    /\ Len(delivered.to) = 2
    /\ delivered.to[1].sub # delivered.to[2].sub
    /\ progressStore[emitted.id] = emitted.state

\* C12: whatever number of times the functions returned by subscribeProgress
\* have been called, the listener array of an id holds a function once for
\* every subscription of that function to that id whose own unsubscribe
\* function was never called.
C12_UnsubscribeIsolated ==
    \A id \in Ids, fn \in Fns :
        Cardinality(positionsOf(listeners[id], fn))
            = Cardinality({k \in DOMAIN subs : /\ subs[k].id = id
                                                /\ subs[k].fn = fn
                                                /\ subs[k].offCalls = 0})

(***************************************************************************)
(* Properties of the progress connections (SpecConnection).                *)
(***************************************************************************)
\* A step that is a call of one of the four publishing functions for id.
Publishes(id) ==
    \/ \E message \in Messages : StartProgress(id, message)
    \/ \E progress \in Percents, message \in Messages : UpdateProgress(id, progress, message)
    \/ \E message \in Messages : CompleteProgress(id, message)
    \/ FailProgress(id, <<"e">>)

\* C18: a new connection for an id is sent the stored state of the id first
\* (a new pending state at 0 when the store had none); while it is open every
\* publish for the id appends exactly the published state to what it was
\* sent, and no other step sends it anything; an open connection has its
\* listener registered once, a closed one has none.
C18_ConnectionSnapshotThenUpdates ==
    /\ [](\A k \in DOMAIN subs :
              subs[k].conn =>
                  Cardinality({e \in DOMAIN listeners[subs[k].id] :
                                  listeners[subs[k].id][e].sub = k})
                      = IF subs[k].open THEN 1 ELSE 0)
    /\ [][\A k \in DOMAIN subs' :
              subs'[k].conn =>
                  IF k \notin DOMAIN subs
                  THEN /\ subs'[k].received = <<progressStore'[subs'[k].id]>>
                       /\ IF progressStore[subs'[k].id] = Absent
                          THEN /\ progressStore'[subs'[k].id].status = "pending"
                               /\ progressStore'[subs'[k].id].progress = 0
                          ELSE progressStore'[subs'[k].id] = progressStore[subs'[k].id]
                  ELSE IF subs[k].open /\ Publishes(subs[k].id)
                       THEN subs'[k].received = Append(subs[k].received, progressStore'[subs[k].id])
                       ELSE subs'[k].received = subs[k].received]_vars

\* A connection made while the store held a running state was sent that
\* state, then two different published states.
C18_Witness ==
    \E k \in DOMAIN subs :
        /\ subs[k].conn
        /\ subs[k].open
        /\ Len(subs[k].received) = 3
        /\ subs[k].received[1] = started(<<>>)
        /\ subs[k].received[2].status = "running"
        /\ subs[k].received[3].status = "complete"
        /\ progressStore[subs[k].id] = subs[k].received[3]

(***************************************************************************)
(* More properties of the generate handler and generateRepository          *)
(* (SpecGen).                                                              *)
(***************************************************************************)
\* C13: a generate request whose folder name, output root or plan fails
\* validation, or whose target with overwriteExisting is not a directory, is
\* answered with the ValidationError (400) and performs no operation on the
\* file system or the repository at any time: what was at the target path
\* stays there, also with overwriteExisting = true.
C13_ValidationBeforeMutation ==
    \A r \in Requests :
        LET req == reqs[r]
        IN  /\ (req.entry = "handler" /\ req.failing # "ok") =>
                   /\ req.pc = "done"
                   /\ req.response.error.kind = "ValidationError"
                   /\ req.response.status = 400
                   /\ req.ops = <<>>
                   /\ fsys = fs0
            /\ req.response.error.kind = "ValidationError" =>
                   /\ req.ops = <<>>
                   /\ fsys = fs0

\* A request with overwriteExisting whose plan fails validation has been
\* answered while the old repository is still in place.
C13_Witness ==
    \E r \in Requests :
        /\ reqs[r].entry = "handler"
        /\ reqs[r].failing = "plan"
        /\ reqs[r].overwriteExisting
        /\ reqs[r].response.status = 400
        /\ fs0 = OldRepo
        /\ fsys = OldRepo

(***************************************************************************)
(* Properties of validateGrid (SpecGrid).                                  *)
(***************************************************************************)
\* The invalid cells of a grid whose rows all have 51 cells.
RefInvalidCells(grid) ==
    {rc \in (1..7) \X (1..51) : grid.levels[rc[1]][rc[2]] \notin {0, 1, 2, 3, 4}}

\* The shape conditions: rows = 7, cols = 51, seven rows of 51 cells.
RefValidShape(grid) ==
    /\ grid.rows = 7 /\ grid.cols = 51
    /\ Len(grid.levels) = 7
    /\ \A r \in 1..7 : Len(grid.levels[r]) = 51

\* C14: validateGrid(grid) returns normally exactly when rows = 7, cols = 51,
\* levels has 7 rows of 51 cells and every cell is in {0,1,2,3,4}; otherwise
\* it throws a ValidationError, and when the shape is right and some cell is
\* not, the error names the zero-based (row, col) of the invalid cell with
\* the smallest row-major index row * 51 + col.
C14_ValidateGridExact ==
    gridCall.called =>
        /\ gridCall.error = NoError <=> RefValidGrid(gridCall.grid)
        /\ gridCall.error # NoError => gridCall.error.kind = "ValidationError"
        /\ (RefValidShape(gridCall.grid) /\ RefInvalidCells(gridCall.grid) # {}) =>
               \E rc \in RefInvalidCells(gridCall.grid) :
                   /\ \A o \in RefInvalidCells(gridCall.grid) :
                          (rc[1] - 1) * 51 + rc[2] <= (o[1] - 1) * 51 + o[2]
                   /\ gridCall.error.message
                          = <<"Grid cell has invalid level", rc[1] - 1, rc[2] - 1>>

\* validateGrid was called on a 7x51 grid with two invalid cells, the first
\* in row order being later in column order, and named the first.
C14_Witness ==
    /\ gridCall.called
    /\ RefValidShape(gridCall.grid)
    /\ RefInvalidCells(gridCall.grid) = {<<1, 51>>, <<2, 1>>}
    /\ gridCall.error.message = <<"Grid cell has invalid level", 0, 50>>

\* The positions of the operations named op among those of a request.
OpsNamed(req, op) == {k \in DOMAIN req.ops : req.ops[k].op = op}

\* C15: in a call of generateRepository with a progress callback and without
\* dryRun, the first emission is (0, "Initializing repository"), made before
\* any operation; once the loop over the plan has ended the last emission is
\* (100, "No commits to write") if the plan has no commits and
\* (100, "Finalizing") otherwise, made right after the last git commit (after
\* git add history.json when there is none) and before git log.
C15_FinalEmission ==
    \A r \in Requests :
        LET req == reqs[r]
            last == req.emitted[Len(req.emitted)]
        IN  (req.onProgress /\ ~req.dryRun) =>
                /\ req.emitted # <<>> =>
                       /\ req.emitted[1].percent = 0
                       /\ req.emitted[1].message = "Initializing repository"
                       /\ req.emitted[1].after = 0
                /\ OpsOfGenerateRepository(req) # <<>> => req.emitted # <<>>
                /\ (req.pc = "log" \/ OpsNamed(req, "git log") # {}) =>
                       /\ last.percent = 100
                       /\ last.message = IF totalCommits(req.plan) = 0
                                         THEN "No commits to write" ELSE "Finalizing"
                       /\ req.ops[last.after].op = IF totalCommits(req.plan) = 0
                                                   THEN "git add history.json" ELSE "git commit"
                       /\ Cardinality(OpsNamed(req, "git commit")) = totalCommits(req.plan)
                       /\ \A k \in OpsNamed(req, "git commit") : k <= last.after
                       /\ \A k \in OpsNamed(req, "git log") : k > last.after

\* A run with a callback and more than one commit has read the log back
\* after (100, "Finalizing").
C15_Witness ==
    \E r \in Requests :
        /\ reqs[r].onProgress
        /\ ~reqs[r].dryRun
        /\ reqs[r].pc = "done"
        /\ reqs[r].response.status = 200
        /\ totalCommits(reqs[r].plan) > 1
        /\ reqs[r].emitted[Len(reqs[r].emitted)].message = "Finalizing"

(***************************************************************************)
(* Properties of the commit loop                                           *)
(***************************************************************************)
\* The number of commits the entries before entry e ask for.
RECURSIVE RefCommitsBefore(_, _)
RefCommitsBefore(plan, e) ==
    IF e <= 1 THEN 0
    ELSE RefCommitsBefore(plan, e - 1)
         + (IF plan[e - 1].commitCount > 0 THEN plan[e - 1].commitCount ELSE 0)

\* The entry the n-th commit of a run belongs to.
RefEntryOf(plan, n) ==
    CHOOSE e \in 1..Len(plan) :
        /\ RefCommitsBefore(plan, e) < n
        /\ n <= RefCommitsBefore(plan, e) + plan[e].commitCount

\* The instant a git timestamp denotes, in seconds since the epoch.
RefInstant(ts) ==
    (RefDayNumber([y |-> ts.y, m |-> ts.m, d |-> ts.d]) + 10957) * 86400
    + ts.hours * 3600 + ts.minutes * 60 + ts.seconds
    - (IF ts.sign = "+" THEN 1 ELSE 0 - 1) * (ts.offsetHours * 3600 + ts.offsetMins * 60)

\* C16: the commits of a successful run are one per (date, index), index
\* 1..commitCount of each entry with commits, in plan order then index
\* order, as many as the plan's total; each has the message
\* "chore(history): <date> #<index>", author date = committer date = a
\* time of its date between 09:00 and 20:00 local, and the instants of
\* successive commits never decrease.
C16_CommitsPerDateIndex ==
    \A r \in DOMAIN runs :
        /\ Len(runs[r].commits) = RefCommitsBefore(replayArgs.plan, Len(replayArgs.plan) + 1)
        /\ \A n \in DOMAIN runs[r].commits :
               /\ runs[r].commits[n].message =
                      <<"chore(history):", replayArgs.plan[RefEntryOf(replayArgs.plan, n)].date,
                        "#", n - RefCommitsBefore(replayArgs.plan, RefEntryOf(replayArgs.plan, n))>>
               /\ runs[r].commits[n].authorDate = runs[r].commits[n].committerDate
               /\ IsoString(runs[r].commits[n].authorDate.y, runs[r].commits[n].authorDate.m,
                            runs[r].commits[n].authorDate.d)
                      = replayArgs.plan[RefEntryOf(replayArgs.plan, n)].date
               /\ runs[r].commits[n].authorDate.hours \in 9..19
               /\ RefInstant(runs[r].commits[n].authorDate)
                      - RefNineOClock(replayArgs.plan[RefEntryOf(replayArgs.plan, n)].date)
                      \in 0..39599
               /\ n > 1 => RefInstant(runs[r].commits[n - 1].authorDate)
                               <= RefInstant(runs[r].commits[n].authorDate)

\* A run over two days with different UTC offsets, with two commits on the
\* first day and one on the second.
C16_Witness ==
    /\ runs # <<>>
    /\ Len(runs[1].commits) = 3
    /\ runs[1].commits[2].message[4] = 2
    /\ runs[1].commits[3].message[4] = 1
    /\ runs[1].commits[2].authorDate.offsetHours # runs[1].commits[3].authorDate.offsetHours
    /\ runs[1].commits[1].committerDate # runs[1].now

\* The messages, forced timestamps and tokens of a run's commits.
RefForced(commits) ==
    [n \in DOMAIN commits |->
        [message |-> commits[n].message, authorDate |-> commits[n].authorDate,
         committerDate |-> commits[n].committerDate, token |-> commits[n].line.payload[3]]]

\* C17: two runs of the commit loop with the same plan, summary and seed (or
\* both without seed) make the same sequence of commits: the same messages,
\* the same author and committer timestamps and the same 16-character
\* tokens, whenever they run.
C17_ReplaySeeded ==
    \A r1, r2 \in DOMAIN runs :
        /\ RefForced(runs[r1].commits) = RefForced(runs[r2].commits)
        /\ \A n \in DOMAIN runs[r1].commits : Len(runs[r1].commits[n].line.payload[3]) = 16

\* Two runs at different times with several commits, whose tokens differ
\* from commit to commit and whose dump lines differ in their wall-clock time.
C17_Witness ==
    /\ Len(runs) = 2
    /\ runs[1].now # runs[2].now
    /\ Len(runs[1].commits) >= 2
    /\ runs[1].commits[1].line.payload[3] # runs[1].commits[2].line.payload[3]
    /\ runs[1].commits[1].line # runs[2].commits[1].line
    /\ ~replayArgs.randomSeed.given

\* The emissions of a request made by a non-forced reportProgress.
PerCommit(req) == {i \in DOMAIN req.emitted : req.emitted[i].by = "commit"}

\* C20: within one run of generateRepository the percents passed to the
\* progress callback never decrease, a per-commit (non-forced) emission
\* never carries the percent of the emission just before it, and there are
\* at most 100 per-commit emissions whatever the number of commits.
C20_PercentsDeduplicated ==
    \A r \in Requests :
        /\ \A i \in 2..Len(reqs[r].emitted) :
               /\ reqs[r].emitted[i - 1].percent <= reqs[r].emitted[i].percent
               /\ i \in PerCommit(reqs[r])
                      => reqs[r].emitted[i - 1].percent # reqs[r].emitted[i].percent
        /\ Cardinality(PerCommit(reqs[r])) <= 100

\* A finished run of more than 100 commits with exactly 100 per-commit
\* emissions.
C20_Witness ==
    \E r \in Requests :
        /\ reqs[r].response.sent
        /\ reqs[r].response.status = 200
        /\ totalCommits(reqs[r].plan) > 100
        /\ Cardinality(OpsNamed(reqs[r], "git commit")) = totalCommits(reqs[r].plan)
        /\ Cardinality(PerCommit(reqs[r])) = 100

(***************************************************************************)
(* Properties of POST /generate with a progress id                         *)
(***************************************************************************)
\* C19: once a generate request that carries a progress id is over, the
\* progress state of that id is terminal: complete at 100% after a
\* successful generation, error with an error message after a failed one;
\* and a connection for that id that is still open has received a terminal
\* state.
C19_ProgressIdTerminal ==
    \A r \in Requests :
        reqs[r].progressId \in Ids /\ reqs[r].response.sent =>
            /\ IF reqs[r].response.status = 200
               THEN /\ progressStore[reqs[r].progressId].status = "complete"
                    /\ progressStore[reqs[r].progressId].progress = 100
               ELSE /\ progressStore[reqs[r].progressId].status = "error"
                    /\ progressStore[reqs[r].progressId].error # <<>>
            /\ \A k \in DOMAIN subs :
                   subs[k].id = reqs[r].progressId /\ subs[k].open =>
                       \E e \in DOMAIN subs[k].received :
                           subs[k].received[e].status \in Terminal

(***************************************************************************)
(* Properties of failing operations (SpecGen).                             *)
(***************************************************************************)
\* The operations that create one commit.
CommitOps == {"append dump.txt", "git add dump.txt", "git commit"}

\* C21: when an external operation fails while a commit is being created,
\* the run ends there with that error: the failed operation is the last one
\* the run performs, every emission was made before it and none carries 100,
\* and the directory with its repository, its manifest and the commits made
\* before stays as it is.
C21_FailureStopsRun ==
    \A r \in Requests :
        (/\ reqs[r].faultAt \in DOMAIN reqs[r].ops
         /\ reqs[r].ops[reqs[r].faultAt].op \in CommitOps) =>
            /\ Len(reqs[r].ops) = reqs[r].faultAt
            /\ reqs[r].pc = "done"
            /\ reqs[r].response.sent
            /\ reqs[r].response.status = 500
            /\ reqs[r].response.error = ExternalError(reqs[r].ops[reqs[r].faultAt].op)
            /\ \A e \in DOMAIN reqs[r].emitted :
                   /\ reqs[r].emitted[e].after < reqs[r].faultAt
                   /\ reqs[r].emitted[e].percent < 100
            /\ fsys.kind = "dir"
            /\ fsys.init
            /\ fsys.history
            /\ fsys.commits = reqs[r].completedCommits
            /\ fsys.commits
                   = Cardinality({k \in OpsNamed(reqs[r], "git commit") : k < reqs[r].faultAt})

\* The second git commit of a run with a progress callback failed: one commit
\* is on disk.
C21_Witness ==
    \E r \in Requests :
        /\ reqs[r].faultAt \in DOMAIN reqs[r].ops
        /\ reqs[r].ops[reqs[r].faultAt].op = "git commit"
        /\ reqs[r].onProgress
        /\ Len(reqs[r].emitted) >= 3
        /\ fsys.commits = 1
        /\ fsys.dump = 2

(***************************************************************************)
(* More properties of progressService (SpecProgress).                      *)
(***************************************************************************)
\* C22: a step removes the entry of an id from the store only when it is the
\* firing of an eviction timer of that id, and the entry it removes has
\* status complete or error: a pending or running entry is never removed,
\* also when the id was started again while a timer was pending.
C22_OnlyTerminalEvicted ==
    [][\A id \in Ids :
           (progressStore[id] # Absent /\ progressStore'[id] = Absent) =>
               /\ timers[id] > 0
               /\ timers'[id] = timers[id] - 1
               /\ progressStore[id].status \in Terminal]_vars

(***************************************************************************)
(* Properties of runs without commits (SpecGen).                           *)
(***************************************************************************)
\* C23: a run of generateRepository that is not a dry run, on a plan without
\* commits, with no operation made to fail, ends normally once it has made
\* the directory: the repository and its manifest exist, the last emission
\* is (100, "No commits to write") and the log sample returned is empty.
C23_ZeroCommitsSucceed ==
    \A r \in Requests :
        (/\ reqs[r].pc = "done"
         /\ ~reqs[r].dryRun
         /\ totalCommits(reqs[r].plan) = 0
         /\ OpsNamed(reqs[r], "mkdir") # {}
         /\ reqs[r].faultAt \notin DOMAIN reqs[r].ops) =>
            /\ reqs[r].response.status = 200
            /\ reqs[r].response.gitLogSample = 0
            /\ fsys.init
            /\ fsys.history
            /\ reqs[r].onProgress =>
                   /\ reqs[r].emitted[Len(reqs[r].emitted)].percent = 100
                   /\ reqs[r].emitted[Len(reqs[r].emitted)].message = "No commits to write"

(***************************************************************************)
(* More properties of the planner (SpecPlan).                              *)
(***************************************************************************)
\* The levels 1..4 that a cell of the grid has and whose range has min > max.
RefUnusableLevels(args) ==
    {level \in 1..4 :
        /\ args.intensityMap.minByLevel[level] > args.intensityMap.maxByLevel[level]
        /\ \E r \in 1..7, c \in 1..51 : args.grid.levels[r][c] = level}

\* The call failed with the intensity-range validation error.
RefRangeError(call) ==
    /\ call.error.kind = "ValidationError"
    /\ call.error.message[1] = "Intensity range is invalid for level"

\* The grid, the dates and the map of a call are valid: a 7x51 grid of
\* levels 0..4, two calendar dates 356 days apart, a min and a max for
\* every level.
RefValidArgs(args) ==
    /\ RefValidGrid(args.grid)
    /\ RefIsRealDate(args.dateRange.startDate)
    /\ RefIsRealDate(args.dateRange.endDate)
    /\ EndIsStartPlus356(args.dateRange)
    /\ DOMAIN args.intensityMap.minByLevel = 0..4
    /\ DOMAIN args.intensityMap.maxByLevel = 0..4

\* C24: with a valid grid, a valid date range and a map with a min and a max
\* for every level, buildCommitPlan fails with the intensity-range
\* validation error exactly when some cell has a level in 1..4 whose min
\* exceeds its max; min > max on a level no cell has, or on level 0, makes
\* no call fail.
C24_RangeCheckedWhenUsed ==
    \A i \in 1..Len(calls) :
        RefValidArgs(calls[i].args) =>
            RefRangeError(calls[i]) <=> RefUnusableLevels(calls[i].args) # {}

\* The same for the calls whose date range passes the day count of
\* diffInDays: this holds.
RangeCheckedWhenAccepted ==
    \A i \in 1..Len(calls) :
        (/\ RefValidArgs(calls[i].args)
         /\ diffInDays(calls[i].args.dateRange.startDate, calls[i].args.dateRange.endDate)
                = EXPECTED_GRID_DAYS - 1) =>
            /\ RefRangeError(calls[i]) <=> RefUnusableLevels(calls[i].args) # {}
            /\ RefUnusableLevels(calls[i].args) = {} => Succeeded(calls[i])

(***************************************************************************)
(* Properties of the generator (SpecRng)                                   *)
(***************************************************************************)
\* The state of the reference generator after n calls, an unsigned 32-bit
\* word: (hash(seed) + n * 0x6D2B79F5) mod 2^32.
RefState(seed, n) == Add32(hashSeed(seed), Imul(<<n \div W16, n % W16>>, <<27947, 31221>>))

\* The generator has been called.
RngCalled == rngCalls.n \notin RngStarts

\* C25: for every seed and every n >= 1, the n-th value of the generator of
\* createRng(seed) is the value the reference generator returns, whose state
\* is the unsigned 32-bit word (hash(seed) + n * 0x6D2B79F5) mod 2^32 and
\* whose mixing steps are the same; every value u satisfies 0 <= u < 1.
C25_MatchesWrappingGenerator ==
    RngCalled =>
        /\ rngCalls.value = rngMix(RefState(rngCalls.seed, rngCalls.n))
        /\ rngCalls.value[1] \in 0..(W16 - 1)
        /\ rngCalls.value[2] \in 0..(W16 - 1)

\* The same while the state is below 2^53.
MatchesWhileExact ==
    (RngCalled /\ rng.ov < 2097152) =>
        rngCalls.value = rngMix(RefState(rngCalls.seed, rngCalls.n))

(***************************************************************************)
(* More properties of the generate handler (SpecGen)                       *)
(***************************************************************************)
\* C26: a generate request with dryRun = true leaves the file system as it
\* was, whatever overwriteExisting is: the handler creates, modifies and
\* deletes nothing at or under the target path.
C26_DryRunRequestKeepsFiles ==
    \A r \in Requests :
        (reqs[r].entry = "handler" /\ reqs[r].dryRun) => fsys = fs0

(***************************************************************************)
(* More properties of progressService (SpecProgress)                       *)
(***************************************************************************)
\* C27: in every stored and every published progress state the error field
\* is present only if the status is error: a pending, running or complete
\* state carries no error message of an earlier failProgress.
C27_ErrorOnlyWithErrorStatus ==
    /\ \A id \in Ids : progressStore[id].error # <<>> => progressStore[id].status = "error"
    /\ emitted.state.error # <<>> => emitted.state.status = "error"

(***************************************************************************)
(* Properties of the dump file (SpecGen)                                   *)
(***************************************************************************)
\* The mutation lines of dump.txt (none without the file).
MutationLines == IF fsys.dump < 0 THEN 0 ELSE fsys.dump

\* generateRepository has passed its existence check and goes on to write.
NonDryRun(r) == ~reqs[r].dryRun /\ reqs[r].found = "none"

RunSucceeded(r) == reqs[r].pc = "done" /\ reqs[r].response.error = NoError

\* C28: at every point of a non-dry run the number of mutation lines in
\* dump.txt is the number of commits created so far, or one more (the commit
\* in flight); after a successful run both are summary.totalCommits; and the
\* lines are only appended: once written, the file never loses a line.
C28_DumpLinesTrackCommits ==
    /\ [](\A r \in Requests :
             NonDryRun(r) =>
                 /\ MutationLines \in {fsys.commits, fsys.commits + 1}
                 /\ RunSucceeded(r) =>
                        /\ MutationLines = totalCommits(reqs[r].plan)
                        /\ fsys.commits = totalCommits(reqs[r].plan))
    /\ [][\A r \in Requests :
              (NonDryRun(r) /\ fsys.dump >= 0) => fsys'.dump \in {fsys.dump, fsys.dump + 1}]_vars

\* The second line is in dump.txt and its commit is not made yet.
C28_Witness ==
    \E r \in Requests :
        /\ NonDryRun(r)
        /\ reqs[r].pc \in {"add dump", "commit"}
        /\ fsys.commits = 1
        /\ fsys.dump = 2

(***************************************************************************)
(* Properties of progress ids (SpecErrorId)                                *)
(***************************************************************************)
\* C29: startProgress, updateProgress, completeProgress and failProgress
\* return normally for every non-empty id, with or without a listener
\* subscribed to it, also for an id that is an event name the emitter
\* treats specially, such as "error".
C29_ProgressCallsReturn == emitted.call # "" => ~emitted.threw

\* The calls return while a listener is subscribed to the id.
ReturnsWithListener == (emitted.call # "" /\ delivered.at # <<>>) => ~emitted.threw

(***************************************************************************)
(* Properties of requests for the same path (SpecConcurrent)               *)
(***************************************************************************)
\* C30: at most one generation run at a time is mutating a repository path:
\* a generate request that arrives while another run has checked the path or
\* is still writing it does not delete the directory and adds no commit of
\* its own to it, and it fails with a conflict.
C30_OneRunPerPath ==
    /\ \A r \in AllRequests : \A q \in AllRequests \ {r} : ~(writing(reqs[r]) /\ writing(reqs[q]))
    /\ \A q \in AllRequests :
           reqs[q].busy =>
               /\ OpsNamed(reqs[q], "rm") = {}
               /\ reqs[q].completedCommits = 0
               /\ reqs[q].pc = "done" => reqs[q].response.error.kind = "ConflictError"

====
